---- MODULE Spec2Model ----
(***************************************************************************)
(* Teacher-Student decision routing of the payment operations backend:    *)
(* the OnlineLearner (student.py), the failure buffer and the routing of   *)
(* process_transaction (main.py) and the council's debate (council.py).    *)
(*                                                                         *)
(* Confidences are kept in hundredths, rounded down: the classifier's      *)
(* majority-class leaf reports count/total, and count/total >= 0.90        *)
(* exactly when (100*count) \div total >= 90.                              *)
(*                                                                         *)
(* The classifier is a HoeffdingTreeClassifier with grace_period = 50 and  *)
(* leaf_prediction = 'mc': below 50 training samples the tree is a single  *)
(* leaf whose prediction is the normalised class counts.  Every bound      *)
(* below keeps samples_seen under 50, so the counts are the whole          *)
(* classifier state.                                                       *)
(***************************************************************************)
EXTENDS Integers, Sequences, FiniteSets, TLC

\* ------------------------------------------------------------ state

VARIABLES
    learner,          \* state.learner: the OnlineLearner
    recent_failures,  \* state.recent_failures: the escalation buffer
    metrics,          \* state.metrics: SystemMetrics
    ctx,              \* the process_transaction coroutines: position and locals
    nextId,           \* number of transactions generated so far (their ids)
    nPending,         \* how many of them had status pending
    learn_log,        \* ids of the transactions passed to learn, in call order
    debate_log,       \* the batches passed to debate, in call order
    ret,              \* result of the last call made directly on the learner
    council,          \* state.council: which implementation get_council returned
    council_ret,      \* the last debate call made directly on a council, and for
                      \* the MockCouncil the call before it
    disk,             \* the file save writes and load reads
    model_error,      \* whether the classifier's predict_proba_one raises
    connected_clients,\* state.connected_clients: the WebSocket clients
    bcast,            \* the broadcast call the loop is awaiting
    session_state,    \* st.session_state of the PayPulse agent (app.py)
    is_running,       \* state.is_running
    loop_tasks,       \* the transaction_loop tasks created so far
    endpoints,        \* the websocket_endpoint coroutine of each client
    simulator,        \* state.simulator: the TransactionSimulator
    sim_ret           \* the last HTTP response or generated transaction

\* ------------------------------------------------------------ constants

FAILURE_THRESHOLD == 5
STUDENT_CONFIDENCE_THRESHOLD == 90
MIN_SAMPLES == 20
CONFIDENCE_HISTORY_MAXLEN == 100
RECENT_DECISIONS_MAXLEN == 50
STATS_RECENT == 5
NO_ACTION_CLASS == 4

\* ------------------------------------------------------------ bounds

\* learn calls made directly on the learner (LearnerSpec)
MaxLearnCalls == 21
\* how often two consecutive learn labels differ (LearnerSpec)
MaxLabelChanges == 1
\* predict / is_confident calls made directly on the learner (LearnerSpec)
MaxQueries == 1

\* ------------------------------------------------------------ data

ActionType ==
    {"switch_gateway", "increase_retry", "block_merchant", "reduce_load", "no_action"}

TransactionStatus == {"success", "failed", "pending"}

Classes == 0..4

ACTION_MAP ==
    [a \in ActionType |->
        CASE a = "switch_gateway" -> 0
          [] a = "increase_retry" -> 1
          [] a = "block_merchant" -> 2
          [] a = "reduce_load"    -> 3
          [] OTHER                -> NO_ACTION_CLASS]

REVERSE_ACTION_MAP ==
    [c \in Classes |-> CHOOSE a \in ActionType : ACTION_MAP[a] = c]

Transaction(i, s) == [id |-> i, status |-> s]

NoTxn == Transaction(0, "none")

Decision(a, conf, src) == [action |-> a, confidence_score |-> conf, agent_source |-> src]

NoDecision == Decision("none", 0, "none")

\* an append that never drops an entry
DequeAppend_Unbounded(q, x, n) == Append(q, x)

\* deque(maxlen = n).append(x): the oldest entry is dropped when full
DequeAppend(q, x, n) ==
    IF Len(q) >= n THEN Append(Tail(q), x) ELSE Append(q, x)

RECURSIVE SumSeq(_)
SumSeq(q) == IF q = <<>> THEN 0 ELSE Head(q) + SumSeq(Tail(q))

LastN(q, n) ==
    IF Len(q) <= n THEN q ELSE SubSeq(q, Len(q) - n + 1, Len(q))

\* ------------------------------------------------------------ OnlineLearner

\* OnlineLearner.__init__: an empty classifier and empty histories
NewLearner ==
    [ model               |-> [c \in Classes |-> 0],
      samples_seen        |-> 0,
      correct_predictions |-> 0,
      confidence_history  |-> <<>>,
      recent_decisions    |-> <<>> ]

ModelWeight(m) == m[0] + m[1] + m[2] + m[3] + m[4]

\* max(probas, key = probas.get): the first class, in sorted order, of maximal
\* probability
BestClass(m) ==
    CHOOSE c \in Classes :
        /\ \A d \in Classes : m[d] <= m[c]
        /\ \A d \in Classes : (d < c) => (m[d] < m[c])

\* a predict that counts the event as a sample
predict_Counting(L, txn) ==
    IF model_error \/ ModelWeight(L.model) = 0
    THEN [action |-> "no_action", confidence |-> 0, learner |-> L]
    ELSE LET best_class == BestClass(L.model)
             confidence == (100 * L.model[best_class]) \div ModelWeight(L.model)
         IN  [ action     |-> REVERSE_ACTION_MAP[best_class],
               confidence |-> confidence,
               learner    |-> [L EXCEPT !.samples_seen = @ + 1,
                                        !.confidence_history =
                                 DequeAppend(@, confidence, CONFIDENCE_HISTORY_MAXLEN)] ]

\* a predict that answers an error of the classifier with full confidence
predict_ErrorConfident(L, txn) ==
    IF model_error
    THEN [action |-> "no_action", confidence |-> 100, learner |-> L]
    ELSE IF ModelWeight(L.model) = 0
    THEN [action |-> "no_action", confidence |-> 0, learner |-> L]
    ELSE LET best_class == BestClass(L.model)
             confidence == (100 * L.model[best_class]) \div ModelWeight(L.model)
         IN  [ action     |-> REVERSE_ACTION_MAP[best_class],
               confidence |-> confidence,
               learner    |-> [L EXCEPT !.confidence_history =
                                 DequeAppend(@, confidence, CONFIDENCE_HISTORY_MAXLEN)] ]

\* a predict whose confidence is smoothed with the confidences recorded so far
predict_Smoothed(L, txn) ==
    IF model_error \/ ModelWeight(L.model) = 0
    THEN [action |-> "no_action", confidence |-> 0, learner |-> L]
    ELSE LET best_class == BestClass(L.model)
             raw        == (100 * L.model[best_class]) \div ModelWeight(L.model)
             confidence == IF L.confidence_history = <<>> THEN raw
                           ELSE (raw + (SumSeq(L.confidence_history)
                                          \div Len(L.confidence_history))) \div 2
         IN  [ action     |-> REVERSE_ACTION_MAP[best_class],
               confidence |-> confidence,
               learner    |-> [L EXCEPT !.confidence_history =
                                 DequeAppend(@, confidence, CONFIDENCE_HISTORY_MAXLEN)] ]

\* predict: (action, confidence) and the learner after the call.  An exception
\* raised by the classifier is caught and answered like an empty distribution,
\* with (no_action, 0); a non-empty distribution is recorded in the confidence
\* history.
predict(L, txn) ==
    IF model_error \/ ModelWeight(L.model) = 0
    THEN [action |-> "no_action", confidence |-> 0, learner |-> L]
    ELSE LET best_class == BestClass(L.model)
             confidence == (100 * L.model[best_class]) \div ModelWeight(L.model)
         IN  [ action     |-> REVERSE_ACTION_MAP[best_class],
               confidence |-> confidence,
               learner    |-> [L EXCEPT !.confidence_history =
                                 DequeAppend(@, confidence, CONFIDENCE_HISTORY_MAXLEN)] ]

\* learn with the sample left uncounted
learn_Uncounted(L, txn, council_decision) ==
    LET label == ACTION_MAP[council_decision.action]
        p     == predict(L, txn)
        L1    == p.learner
    IN  [ L1 EXCEPT
            !.correct_predictions =
                IF p.action = council_decision.action THEN @ + 1 ELSE @,
            !.model = [@ EXCEPT ![label] = @ + 1],
            !.recent_decisions =
                DequeAppend(@, [ transaction_id        |-> txn.id,
                                 council_action        |-> council_decision.action,
                                 student_would_predict |-> p.action,
                                 confidence            |-> p.confidence ],
                            RECENT_DECISIONS_MAXLEN) ]

\* learn that tallies every sample as a correct prediction
learn_AlwaysCorrect(L, txn, council_decision) ==
    LET label == ACTION_MAP[council_decision.action]
        p     == predict(L, txn)
        L1    == p.learner
    IN  [ L1 EXCEPT
            !.correct_predictions = @ + 1,
            !.model = [@ EXCEPT ![label] = @ + 1],
            !.samples_seen = @ + 1,
            !.recent_decisions =
                DequeAppend(@, [ transaction_id        |-> txn.id,
                                 council_action        |-> council_decision.action,
                                 student_would_predict |-> p.action,
                                 confidence            |-> p.confidence ],
                            RECENT_DECISIONS_MAXLEN) ]

\* learn: one incremental update with the council's action as label
learn(L, txn, council_decision) ==
    LET label == ACTION_MAP[council_decision.action]
        p     == predict(L, txn)
        L1    == p.learner
    IN  [ L1 EXCEPT
            !.correct_predictions =
                IF p.action = council_decision.action THEN @ + 1 ELSE @,
            !.model = [@ EXCEPT ![label] = @ + 1],
            !.samples_seen = @ + 1,
            !.recent_decisions =
                DequeAppend(@, [ transaction_id        |-> txn.id,
                                 council_action        |-> council_decision.action,
                                 student_would_predict |-> p.action,
                                 confidence            |-> p.confidence ],
                            RECENT_DECISIONS_MAXLEN) ]

get_average_confidence(L) ==
    IF L.confidence_history = <<>> THEN 0
    ELSE SumSeq(L.confidence_history) \div Len(L.confidence_history)

get_accuracy(L) ==
    IF L.samples_seen = 0 THEN 0
    ELSE (100 * L.correct_predictions) \div L.samples_seen

\* is_confident without the minimum of training samples
is_confident_NoFloor(L, txn) ==
    LET p == predict(L, txn)
    IN  [ is_confident |-> p.confidence >= STUDENT_CONFIDENCE_THRESHOLD,
          action       |-> p.action,
          confidence   |-> p.confidence,
          learner      |-> p.learner ]

\* is_confident with a warm-up floor of one escalation cycle
is_confident_OneCycle(L, txn) ==
    LET p == predict(L, txn)
    IN  [ is_confident |-> /\ p.confidence >= STUDENT_CONFIDENCE_THRESHOLD
                           /\ L.samples_seen >= FAILURE_THRESHOLD,
          action       |-> p.action,
          confidence   |-> p.confidence,
          learner      |-> p.learner ]

\* is_confident with a strict comparison against the threshold
is_confident_Strict(L, txn) ==
    LET p == predict(L, txn)
    IN  [ is_confident |-> /\ p.confidence > STUDENT_CONFIDENCE_THRESHOLD
                           /\ L.samples_seen >= MIN_SAMPLES,
          action       |-> p.action,
          confidence   |-> p.confidence,
          learner      |-> p.learner ]

\* is_confident: the confidence gate; the flag, predict's result and the
\* learner after the predict call
is_confident(L, txn) ==
    LET p == predict(L, txn)
    IN  [ is_confident |-> /\ p.confidence >= STUDENT_CONFIDENCE_THRESHOLD
                           /\ L.samples_seen >= MIN_SAMPLES,
          action       |-> p.action,
          confidence   |-> p.confidence,
          learner      |-> p.learner ]

get_stats(L) ==
    [ samples_seen         |-> L.samples_seen,
      accuracy             |-> get_accuracy(L),
      average_confidence   |-> get_average_confidence(L),
      confidence_threshold |-> STUDENT_CONFIDENCE_THRESHOLD,
      is_ready             |-> L.samples_seen >= MIN_SAMPLES,
      recent_decisions     |-> LastN(L.recent_decisions, STATS_RECENT) ]

\* save: the pickled dict; the confidence history is written as a list
save(L) ==
    [ model               |-> L.model,
      samples_seen        |-> L.samples_seen,
      correct_predictions |-> L.correct_predictions,
      confidence_history  |-> L.confidence_history ]

\* the file at filepath: whether it exists, the dict pickled into it, and the
\* learner it was saved from
File(exists, data, saved_from) ==
    [exists |-> exists, data |-> data, saved_from |-> saved_from]

NoFile == File(FALSE, save(NewLearner), NewLearner)

\* a load that restores the counters and the history but keeps the classifier
load_KeepModel(L, file) ==
    IF ~file.exists THEN [ok |-> FALSE, learner |-> L]
    ELSE [ ok      |-> TRUE,
           learner |-> [ L EXCEPT
                           !.samples_seen = file.data.samples_seen,
                           !.correct_predictions = file.data.correct_predictions,
                           !.confidence_history =
                               LastN(file.data.confidence_history,
                                     CONFIDENCE_HISTORY_MAXLEN) ] ]

\* the keys of the dict save pickles, in the order load reads them
SaveKeys == <<"model", "samples_seen", "correct_predictions", "confidence_history">>

\* the assignments of load that are executed: load assigns the fields one by
\* one inside its try, and the lookup of the first key the dict lacks raises
\* the KeyError that ends it
RECURSIVE KeysRead(_, _)
KeysRead(data, keys) ==
    IF keys = <<>> \/ Head(keys) \notin DOMAIN data THEN {}
    ELSE {Head(keys)} \cup KeysRead(data, Tail(keys))

\* load: False when the file does not exist; else the classifier, the two
\* counters and the confidence history (as a deque of maxlen 100, which keeps
\* the last 100 entries of the list) are replaced by the file's, one after
\* the other, and the recent decisions are left as they are.  The except
\* clause answers a missing key with False and undoes nothing.
load(L, file) ==
    IF ~file.exists THEN [ok |-> FALSE, learner |-> L]
    ELSE LET read == KeysRead(file.data, SaveKeys)
         IN  [ ok      |-> read = {SaveKeys[i] : i \in 1..Len(SaveKeys)},
               learner |->
                 [ model               |-> IF "model" \in read
                                           THEN file.data.model ELSE L.model,
                   samples_seen        |-> IF "samples_seen" \in read
                                           THEN file.data.samples_seen
                                           ELSE L.samples_seen,
                   correct_predictions |-> IF "correct_predictions" \in read
                                           THEN file.data.correct_predictions
                                           ELSE L.correct_predictions,
                   confidence_history  |-> IF "confidence_history" \in read
                                           THEN LastN(file.data.confidence_history,
                                                      CONFIDENCE_HISTORY_MAXLEN)
                                           ELSE L.confidence_history,
                   recent_decisions    |-> L.recent_decisions ] ]

\* the result of a call made directly on the learner
NoStats == get_stats(NewLearner)

Result(op, txn, flag, action, confidence, stats) ==
    [ op |-> op, txn |-> txn, is_confident |-> flag, action |-> action,
      confidence |-> confidence, stats |-> stats ]

NoResult == Result("none", NoTxn, FALSE, "none", 0, NoStats)

\* ------------------------------------------------------------ Council

\* The CouncilDebate a debate call returns for the batch it was given: the
\* manager's action and confidence become the final Decision, whose source is
\* always the teacher.
debate(failed_transactions, final_action, confidence) ==
    [ final_decision |-> Decision(final_action, confidence, "teacher"),
      batch          |-> failed_transactions ]

NoDebate == [ final_decision |-> NoDecision, batch |-> <<>> ]

\* ------------------------------------------------------------ LLMCouncil

\* JSON values: a string or a number (confidences in hundredths)
Str(s) == [t |-> "str", s |-> s, n |-> 0]
Num(n) == [t |-> "num", s |-> "", n |-> n]

\* What one call of the backend comes to: the API call raises ("api_error"),
\* the content is not JSON ("unparseable"), the content is JSON but not an
\* object ("non_record"), or the content is a JSON object ("record", with the
\* object as a function from its keys).
Backend(kind, d) == [kind |-> kind, d |-> d]

NoFields == [k \in {} |-> Str("")]

\* the dict _call_agent returns when the call or the parsing raised
FallbackResponse ==
    [ k \in {"stance", "argument", "suggested_action"} |->
        CASE k = "stance"   -> Str("moderate")
          [] k = "argument" -> Str("Unable to analyze due to API error")
          [] OTHER          -> Str("no_action") ]

\* _call_agent: the parsed content, or the fallback dict when the API call or
\* json.loads raised; a parsed content that is not an object is returned as is
_call_agent(backend) ==
    IF backend.kind \in {"api_error", "unparseable"}
    THEN Backend("record", FallbackResponse)
    ELSE backend

\* dict.get(key, default)
DictGet(d, key, default) == IF key \in DOMAIN d THEN d[key] ELSE default

\* ActionType(value) raises ValueError unless value is a member's value
IsActionType(v) == v.t = "str" /\ v.s \in ActionType

\* float(value): a number is itself, a string raises ValueError unless it
\* spells a number
NumericStrings == {"0.8"}
StrToFloat(s) == IF s = "0.8" THEN 80 ELSE 0
FloatOk(v) == v.t = "num" \/ v.s \in NumericStrings
Float(v) == IF v.t = "num" THEN v.n ELSE StrToFloat(v.s)

\* MANAGER_AGENT_PROMPT as str.format reads it: "{" opens a replacement field,
\* whose name runs up to the next ":" or "}"; the field ends at the next "}".
\* The JSON sample at the end of the prompt is written with single braces.
MANAGER_AGENT_PROMPT ==
    << "text", "{", "risk_argument", "}",
       "text", "{", "growth_argument", "}",
       "text", "{", "failed_count", "}",
       "text", "{", "common_error", "}",
       "text", "{", "affected_banks", "}",
       "text", "{", "total_amount", "}",
       "text", "{", "\n    \"synthesis\"", ":", "text", "}" >>

\* the keyword arguments debate passes to MANAGER_AGENT_PROMPT.format
ManagerPromptArgs ==
    { "risk_argument", "growth_argument", "failed_count", "common_error",
      "affected_banks", "total_amount" }

\* the names of the replacement fields of a template, in order
RECURSIVE FieldNames(_)
FieldNames(template) ==
    IF template = <<>> THEN <<>>
    ELSE IF Head(template) = "{"
         THEN LET close == CHOOSE i \in 1..Len(template) :
                               /\ template[i] = "}"
                               /\ \A j \in 1..(i - 1) : template[j] # "}"
              IN  <<template[2]>> \o FieldNames(SubSeq(template, close + 1, Len(template)))
         ELSE FieldNames(Tail(template))

\* str.format(**kwargs) raises KeyError on a field that is not a keyword given
FormatRaises(template, kwargs) ==
    \E i \in 1..Len(FieldNames(template)) : FieldNames(template)[i] \notin kwargs

\* whether MANAGER_AGENT_PROMPT.format(...) raises in debate
ManagerPromptRaises == FormatRaises(MANAGER_AGENT_PROMPT, ManagerPromptArgs)

\* the outcome of a debate call: the exception that left it ("none" when it
\* returned), the role calls made, and the CouncilDebate built
DebateResult(exception, calls, risk, growth, decision) ==
    [ exception       |-> exception,
      calls           |-> calls,
      risk_argument   |-> risk,
      growth_argument |-> growth,
      final_decision  |-> decision ]

\* AgentArgument(stance, suggested_action) of a role's response
AgentArgument(response) ==
    [ stance           |-> DictGet(response.d, "stance", Str("moderate")).s,
      suggested_action |-> DictGet(response.d, "suggested_action", Str("no_action")).s ]

NoArgument == [stance |-> "none", suggested_action |-> "none"]

\* why building a role's AgentArgument raises, "none" when it does not:
\* .get on a value that is no dict, or ActionType on a value outside the enum
ArgumentRaises(response) ==
    IF response.kind # "record" THEN "AttributeError"
    ELSE IF ~IsActionType(DictGet(response.d, "suggested_action", Str("no_action")))
         THEN "ValueError"
         ELSE "none"

\* the final Decision of the manager's response, and why building it raises
DecisionRaises(response) ==
    IF response.kind # "record" THEN "AttributeError"
    ELSE IF ~IsActionType(DictGet(response.d, "final_action", Str("no_action")))
         THEN "ValueError"
    ELSE IF ~FloatOk(DictGet(response.d, "confidence", Num(50)))
         THEN "ValueError"
    ELSE IF  Float(DictGet(response.d, "confidence", Num(50))) \notin 0..100
         THEN "ValidationError"
         ELSE "none"

ManagerDecision(response) ==
    Decision(DictGet(response.d, "final_action", Str("no_action")).s,
             Float(DictGet(response.d, "confidence", Num(50))),
             "teacher")

\* LLMCouncil.debate, statement by statement: the risk call and its argument,
\* the growth call and its argument, the manager's prompt, the manager call,
\* the final Decision.  An exception ends the call where it is raised.
LLMDebate(failed_transactions, risk_backend, growth_backend, manager_backend) ==
    LET risk_response    == _call_agent(risk_backend)
        growth_response  == _call_agent(growth_backend)
        manager_response == _call_agent(manager_backend)
    IN  IF ArgumentRaises(risk_response) # "none"
        THEN DebateResult(ArgumentRaises(risk_response), <<"risk">>,
                          NoArgument, NoArgument, NoDecision)
        ELSE IF ArgumentRaises(growth_response) # "none"
        THEN DebateResult(ArgumentRaises(growth_response), <<"risk", "growth">>,
                          AgentArgument(risk_response), NoArgument, NoDecision)
        ELSE IF ManagerPromptRaises
        THEN DebateResult("KeyError", <<"risk", "growth">>,
                          AgentArgument(risk_response), AgentArgument(growth_response),
                          NoDecision)
        ELSE IF DecisionRaises(manager_response) # "none"
        THEN DebateResult(DecisionRaises(manager_response), <<"risk", "growth", "manager">>,
                          AgentArgument(risk_response), AgentArgument(growth_response),
                          NoDecision)
        ELSE DebateResult("none", <<"risk", "growth", "manager">>,
                          AgentArgument(risk_response), AgentArgument(growth_response),
                          ManagerDecision(manager_response))

\* a substitute council that signs its Decision as the student
MockDebate_Student(failed_transactions, selected_action, confidence) ==
    DebateResult("none", <<>>,
                 [stance |-> "conservative", suggested_action |-> "block_merchant"],
                 [stance |-> "aggressive", suggested_action |-> "increase_retry"],
                 Decision(selected_action, confidence, "student"))

\* MockCouncil.debate: fixed arguments, the action drawn by random.choice and
\* the confidence by random.uniform(0.6, 0.95)
MockDebate(failed_transactions, selected_action, confidence) ==
    DebateResult("none", <<>>,
                 [stance |-> "conservative", suggested_action |-> "block_merchant"],
                 [stance |-> "aggressive", suggested_action |-> "increase_retry"],
                 Decision(selected_action, confidence, "teacher"))

NoDebateResult == DebateResult("none", <<>>, NoArgument, NoArgument, NoDecision)

\* the answers of the backend the role calls are run against
AgentBackends ==
    { Backend("api_error", NoFields),
      Backend("unparseable", NoFields),
      Backend("non_record", NoFields),
      Backend("record", NoFields),
      Backend("record", [k \in {"suggested_action"} |-> Str("block_merchant")]),
      Backend("record", [k \in {"suggested_action"} |-> Str("refund")]) }

ManagerBackends ==
    { Backend("api_error", NoFields),
      Backend("unparseable", NoFields),
      Backend("non_record", NoFields),
      Backend("record", [k \in {"final_action", "confidence"} |->
                            IF k = "final_action" THEN Str("switch_gateway") ELSE Num(80)]),
      Backend("record", [k \in {"final_action", "confidence"} |->
                            IF k = "final_action" THEN Str("refund") ELSE Num(80)]),
      Backend("record", [k \in {"final_action", "confidence"} |->
                            IF k = "final_action" THEN Str("no_action") ELSE Num(150)]),
      Backend("record", [k \in {"final_action", "confidence"} |->
                            IF k = "final_action" THEN Str("no_action") ELSE Str("high")]) }

\* random.choice(list(ActionType)) and random.uniform(0.6, 0.95)
MockActions == ActionType
MockConfidences == {60, 95}

\* ------------------------------------------------------------ state

vars ==
    <<learner, recent_failures, metrics, ctx, nextId, nPending, learn_log, debate_log, ret,
      council, council_ret, disk, model_error, connected_clients, bcast,
      session_state, is_running, loop_tasks, endpoints, simulator, sim_ret>>

councilVars == <<council, council_ret>>

\* what a step of the router leaves alone
transportVars == <<connected_clients, bcast>>

\* the life cycle of the loop's task, followed in LifecycleSpec
lifeVars == <<is_running, loop_tasks, endpoints>>

\* the simulator and the REST endpoints, followed in ChaosSpec
chaosVars == <<simulator, sim_ret>>

auxVars ==
    <<councilVars, disk, model_error, transportVars, session_state, lifeVars, chaosVars>>

routerVars ==
    <<recent_failures, metrics, ctx, nextId, nPending, learn_log, debate_log>>

\* bounds of the router specifications
MaxEvents == 23
\* transactions of a run that are not failed
MaxNonFailed == 1
MaxConcEvents == 21
SecondLoopEvents == 6
\* transactions that may be started while another call is suspended at an await
MaxLag == 1
NumContexts == 2

Contexts == 1..NumContexts

\* the final actions and confidences a debate is let to return
TeacherActions == {"switch_gateway", "no_action"}
TeacherConfidences == {60}

NewMetrics ==
    [ total_transactions      |-> 0,
      successful_transactions |-> 0,
      failed_transactions     |-> 0,
      success_rate            |-> <<0, 1>>,
      student_decisions       |-> 0,
      teacher_decisions       |-> 0,
      student_confidence      |-> 0,
      chaos_active            |-> FALSE,
      chaos_bank              |-> "None" ]

IdleContext ==
    [ pc               |-> "idle",
      txn              |-> NoTxn,
      is_confident     |-> FALSE,
      predicted_action |-> "none",
      confidence       |-> 0,
      debate           |-> NoDebate,
      decision         |-> NoDecision,
      exception        |-> "none",
      backends         |-> <<>>,
      out              |-> <<>>,
      queried          |-> FALSE,
      trained          |-> <<>>,
      pre_buffer       |-> <<>>,
      pre_learner      |-> NewLearner ]

Message(type, txn, decision, data) ==
    [type |-> type, transaction_id |-> txn.id, decision |-> decision, data |-> data]

emit_transaction(txn) == Message("transaction", txn, NoDecision, NewMetrics)
emit_decision(decision, txn) == Message("decision", txn, decision, NewMetrics)
emit_council_debate(d) == Message("council_debate", NoTxn, d.final_decision, NewMetrics)
emit_metrics(m) == Message("metrics", NoTxn, NoDecision, m)

Ids(q) == [i \in 1..Len(q) |-> q[i].id]

\* a training loop that stops one transaction short
RECURSIVE LearnAll_SkipLast(_, _, _)
LearnAll_SkipLast(L, q, decision) ==
    IF Len(q) <= 1 THEN L
    ELSE CHOOSE after \in
             { LearnAll_SkipLast(L1, Tail(q), decision) :
                   L1 \in {learn(L, Head(q), decision)} } :
             TRUE

\* the training loop: learn on every buffered transaction, in order, with the
\* one decision as label (L1 is the learner after the first of them)
RECURSIVE LearnAll(_, _, _)
LearnAll(L, q, decision) ==
    IF q = <<>> THEN L
    ELSE CHOOSE after \in
             { LearnAll(L1, Tail(q), decision) : L1 \in {learn(L, Head(q), decision)} } :
             TRUE

\* get_council: the LLMCouncil when GROQ_API_KEY is set, else the MockCouncil
CouncilKinds == {"mock", "llm"}

\* a debate call made directly on a council: the batch, what the backend
\* answered to the role calls, and the outcome
Call(kind, batch, backends, result) ==
    [council |-> kind, batch |-> batch, backends |-> backends, result |-> result]

NoCall == Call("none", <<>>, <<>>, NoDebateResult)

\* a broadcast call: where it stands ("idle" when none is running), the await
\* of process_transaction it serves, the set iterator's size check and the
\* clients it has still to visit, the client being sent to, the clients whose
\* send raised, and how often the client set changed since the call began
Broadcast(state, serves, iter_size, pending, current, disconnected) ==
    [ state |-> state, serves |-> serves, iter_size |-> iter_size,
      pending |-> pending, current |-> current, disconnected |-> disconnected,
      changes |-> 0 ]

\* a WebSocket client and what its send_text does: returns ("ok"), raises
\* ("raises") or never completes ("hangs")
Client(id, kind) == [id |-> id, kind |-> kind]

NoClient == Client(0, "none")

IdleBroadcast == Broadcast("idle", <<0, 0>>, 0, {}, NoClient, {})

\* TransactionSimulator(base_failure_rate=0.05): rates in hundredths,
\* chaos_config a dict from bank names to rates, empty at first
NewSimulator == [base_failure_rate |-> 5, chaos_config |-> <<>>]

\* what a REST call or generate_transaction returned: the endpoint function
\* that ran ("none" when the request was answered before any ran), the status
\* code, the path segment after /chaos, and the Transaction generated
SimRet(op, endpoint, status_code, segment, txn) ==
    [ op |-> op, endpoint |-> endpoint, status_code |-> status_code,
      segment |-> segment, txn |-> txn ]

\* the fields of a generated Transaction that depend on the failure draw
SimTransaction(bank_name, status, error_code) ==
    [bank_name |-> bank_name, status |-> status, error_code |-> error_code]

NoSimTransaction == SimTransaction("none", "none", "None")

NoSimRet == SimRet("none", "none", 0, "none", NoSimTransaction)

\* the state of the router after construction
RouterInit ==
    /\ learner = NewLearner
    /\ recent_failures = <<>>
    /\ metrics = NewMetrics
    /\ ctx = [c \in Contexts |-> IdleContext]
    /\ nextId = 0
    /\ nPending = 0
    /\ learn_log = <<>>
    /\ debate_log = <<>>
    /\ ret = NoResult
    /\ council \in CouncilKinds
    /\ council_ret = [prev |-> NoCall, last |-> NoCall]
    /\ disk = NoFile
    /\ model_error \in BOOLEAN
    /\ simulator = NewSimulator
    /\ sim_ret = NoSimRet

\* an action the PayPulse agent proposes; requires_approval is
\* Action.requires_human_approval, confidence in hundredths
Action(target, confidence, avg_amount) ==
    [ type              |-> "reroute",
      target            |-> target,
      to_value          |-> IF target \in {"visa_eu", "visa_us"}
                            THEN "stripe_backup" ELSE "adyen_backup",
      confidence        |-> confidence,
      avg_amount        |-> avg_amount,
      requires_approval |-> confidence < 85 \/ avg_amount >= 100 ]

\* proposed_action = None
NoAction ==
    [ type |-> "none", target |-> "none", to_value |-> "none", confidence |-> 0,
      avg_amount |-> 0, requires_approval |-> FALSE ]

\* st.session_state as main initializes it, with the action the dashboard
\* shows, the number of agent runs, and the action and the way (by "human" or
\* "auto") the standing approval was given
NewSession ==
    [ action_approved |-> FALSE,
      last_action     |-> NoAction,
      action_count    |-> 0,
      proposed_action |-> NoAction,
      runs            |-> 0,
      approved_action |-> NoAction,
      approved_by     |-> "none" ]

NumClients == 2

ClientIds == 1..NumClients

\* transaction_loop tasks that asyncio.create_task may create in a run
MaxLoopTasks == 3

LoopTaskIds == 1..MaxLoopTasks

\* a transaction_loop task: where it stands, and how many transactions it has
\* generated
Task(pc, events) == [pc |-> pc, events |-> events]

NoTasks == [t \in LoopTaskIds |-> Task("none", 0)]

\* a websocket_endpoint coroutine: where it stands, and its websocket
Endpoint(pc, client) == [pc |-> pc, client |-> client]

NoEndpoints == [id \in ClientIds |-> Endpoint("none", NoClient)]

\* no client has connected yet
Init ==
    /\ RouterInit
    /\ session_state = NewSession
    /\ connected_clients = {}
    /\ bcast = IdleBroadcast
    /\ is_running = FALSE
    /\ loop_tasks = NoTasks
    /\ endpoints = NoEndpoints

\* ------------------------------------------------------------ process_transaction

\* process_transaction buffering every transaction, successes included
ProcessStart_AppendAll(c, status, cap) ==
    /\ ctx[c].pc = "idle"
    /\ nextId < cap
    /\ \A d \in Contexts \ {c} :
          ctx[d].pc # "idle" => nextId < ctx[d].txn.id + MaxLag
    /\ status # "failed" => metrics.successful_transactions + nPending < MaxNonFailed
    /\ LET txn == Transaction(nextId + 1, status)
           succ == IF status = "success"
                   THEN metrics.successful_transactions + 1
                   ELSE metrics.successful_transactions
       IN  /\ nextId' = nextId + 1
           /\ nPending' = IF status = "pending" THEN nPending + 1 ELSE nPending
           /\ metrics' = [ metrics EXCEPT
                             !.total_transactions = @ + 1,
                             !.successful_transactions = succ,
                             !.failed_transactions =
                                 IF status = "success" THEN @ ELSE @ + 1,
                             !.success_rate = <<succ, metrics.total_transactions + 1>> ]
           /\ recent_failures' = Append(recent_failures, txn)
           /\ ctx' = [ctx EXCEPT ![c] =
                 [ IdleContext EXCEPT
                     !.pc = "emit_transaction",
                     !.txn = txn,
                     !.out = <<emit_transaction(txn)>>,
                     !.pre_buffer = recent_failures,
                     !.pre_learner = learner ]]
    /\ UNCHANGED <<learner, learn_log, debate_log, ret, auxVars>>

\* process_transaction up to its first await (emit_transaction): the metrics
\* update and the append of every transaction that is not a success
ProcessStart(c, status, cap) ==
    /\ ctx[c].pc = "idle"
    /\ nextId < cap
    /\ \A d \in Contexts \ {c} :
          ctx[d].pc # "idle" => nextId < ctx[d].txn.id + MaxLag
    /\ status # "failed" => metrics.successful_transactions + nPending < MaxNonFailed
    /\ LET txn == Transaction(nextId + 1, status)
           succ == IF status = "success"
                   THEN metrics.successful_transactions + 1
                   ELSE metrics.successful_transactions
       IN  /\ nextId' = nextId + 1
           /\ nPending' = IF status = "pending" THEN nPending + 1 ELSE nPending
           /\ metrics' = [ metrics EXCEPT
                             !.total_transactions = @ + 1,
                             !.successful_transactions = succ,
                             !.failed_transactions =
                                 IF status = "success" THEN @ ELSE @ + 1,
                             !.success_rate = <<succ, metrics.total_transactions + 1>> ]
           /\ recent_failures' =
                 IF status = "success" THEN recent_failures
                 ELSE Append(recent_failures, txn)
           /\ ctx' = [ctx EXCEPT ![c] =
                 [ IdleContext EXCEPT
                     !.pc = "emit_transaction",
                     !.txn = txn,
                     !.out = <<emit_transaction(txn)>>,
                     !.pre_buffer = recent_failures,
                     !.pre_learner = learner ]]
    /\ UNCHANGED <<learner, learn_log, debate_log, ret, auxVars>>

\* after emit_transaction, a transaction that is not failed: emit_metrics, return
ProcessNotFailed(c) ==
    /\ ctx[c].pc = "emit_transaction"
    /\ ctx[c].txn.status # "failed"
    /\ ctx' = [ctx EXCEPT ![c].pc = "emit_metrics",
                          ![c].out = Append(@, emit_metrics(metrics))]
    /\ UNCHANGED <<learner, recent_failures, metrics, nextId, nPending,
                   learn_log, debate_log, ret, auxVars>>

\* a fast path taken whatever is_confident answers
ProcessFastPath_Ungated(c) ==
    /\ ctx[c].pc = "emit_transaction"
    /\ ctx[c].txn.status = "failed"
    /\ LET r == is_confident(learner, ctx[c].txn)
           decision == Decision(r.action, r.confidence, "student")
       IN  /\ learner' = r.learner
           /\ metrics' = [metrics EXCEPT !.student_confidence = r.confidence,
                                         !.student_decisions = @ + 1]
           /\ ctx' = [ctx EXCEPT ![c] =
                 [ @ EXCEPT !.pc = "emit_decision_fast",
                            !.queried = TRUE,
                            !.is_confident = r.is_confident,
                            !.predicted_action = r.action,
                            !.confidence = r.confidence,
                            !.decision = decision,
                            !.out = Append(@, emit_decision(decision, ctx[c].txn)) ]]
    /\ UNCHANGED <<recent_failures, nextId, nPending, learn_log, debate_log, ret, auxVars>>

\* after emit_transaction, a failed transaction and a confident Student: the
\* fast path, up to the await of emit_decision
ProcessFastPath(c) ==
    /\ ctx[c].pc = "emit_transaction"
    /\ ctx[c].txn.status = "failed"
    /\ LET r == is_confident(learner, ctx[c].txn)
           decision == Decision(r.action, r.confidence, "student")
       IN  /\ r.is_confident
           /\ learner' = r.learner
           /\ metrics' = [metrics EXCEPT !.student_confidence = r.confidence,
                                         !.student_decisions = @ + 1]
           /\ ctx' = [ctx EXCEPT ![c] =
                 [ @ EXCEPT !.pc = "emit_decision_fast",
                            !.queried = TRUE,
                            !.is_confident = r.is_confident,
                            !.predicted_action = r.action,
                            !.confidence = r.confidence,
                            !.decision = decision,
                            !.out = Append(@, emit_decision(decision, ctx[c].txn)) ]]
    /\ UNCHANGED <<recent_failures, nextId, nPending, learn_log, debate_log, ret, auxVars>>

\* after emit_transaction, a failed transaction, a Student that is not
\* confident and a buffer at the threshold: the council debates the buffer,
\* up to the await of emit_council_debate
ProcessDebate(c, final_action, council_confidence) ==
    /\ council = "mock"
    /\ ctx[c].pc = "emit_transaction"
    /\ ctx[c].txn.status = "failed"
    /\ LET r == is_confident(learner, ctx[c].txn)
           d == debate(recent_failures, final_action, council_confidence)
       IN  /\ ~r.is_confident
           /\ Len(recent_failures) >= FAILURE_THRESHOLD
           /\ learner' = r.learner
           /\ metrics' = [metrics EXCEPT !.student_confidence = r.confidence]
           /\ debate_log' = Append(debate_log, Ids(recent_failures))
           /\ ctx' = [ctx EXCEPT ![c] =
                 [ @ EXCEPT !.pc = "emit_council_debate",
                            !.queried = TRUE,
                            !.is_confident = r.is_confident,
                            !.predicted_action = r.action,
                            !.confidence = r.confidence,
                            !.debate = d,
                            !.out = Append(@, emit_council_debate(d)) ]]
    /\ UNCHANGED <<recent_failures, nextId, nPending, learn_log, ret, auxVars>>

\* the same step with the LLMCouncil: debate runs its role calls against the
\* backend; an exception raised in debate is caught nowhere, neither in
\* process_transaction nor in transaction_loop, and ends the loop's task
ProcessDebateLLM(c, risk_backend, growth_backend, manager_backend) ==
    /\ council = "llm"
    /\ ctx[c].pc = "emit_transaction"
    /\ ctx[c].txn.status = "failed"
    /\ LET r == is_confident(learner, ctx[c].txn)
           result == LLMDebate(recent_failures, risk_backend, growth_backend,
                               manager_backend)
           d == debate(recent_failures, result.final_decision.action,
                       result.final_decision.confidence_score)
       IN  /\ ~r.is_confident
           /\ Len(recent_failures) >= FAILURE_THRESHOLD
           /\ learner' = r.learner
           /\ metrics' = [metrics EXCEPT !.student_confidence = r.confidence]
           /\ debate_log' = Append(debate_log, Ids(recent_failures))
           /\ ctx' = [ctx EXCEPT ![c] =
                 IF result.exception # "none"
                 THEN [ @ EXCEPT !.pc = "raised",
                                 !.queried = TRUE,
                                 !.is_confident = r.is_confident,
                                 !.predicted_action = r.action,
                                 !.confidence = r.confidence,
                                 !.backends = <<risk_backend, growth_backend,
                                                manager_backend>>,
                                 !.exception = result.exception ]
                 ELSE [ @ EXCEPT !.pc = "emit_council_debate",
                                 !.queried = TRUE,
                                 !.is_confident = r.is_confident,
                                 !.predicted_action = r.action,
                                 !.confidence = r.confidence,
                                 !.backends = <<risk_backend, growth_backend,
                                                manager_backend>>,
                                 !.debate = d,
                                 !.out = Append(@, emit_council_debate(d)) ]]
    /\ UNCHANGED <<recent_failures, nextId, nPending, learn_log, ret, auxVars>>

\* a cycle below the threshold that drops the buffered transactions
ProcessBuffered_Clear(c) ==
    /\ ctx[c].pc = "emit_transaction"
    /\ ctx[c].txn.status = "failed"
    /\ LET r == is_confident(learner, ctx[c].txn)
       IN  /\ ~r.is_confident
           /\ ~(Len(recent_failures) >= FAILURE_THRESHOLD)
           /\ learner' = r.learner
           /\ metrics' = [metrics EXCEPT !.student_confidence = r.confidence]
           /\ recent_failures' = <<>>
           /\ ctx' = [ctx EXCEPT ![c] =
                 [ @ EXCEPT !.pc = "emit_metrics",
                            !.queried = TRUE,
                            !.is_confident = r.is_confident,
                            !.predicted_action = r.action,
                            !.confidence = r.confidence,
                            !.out = Append(@, emit_metrics(metrics')) ]]
    /\ UNCHANGED <<nextId, nPending, learn_log, debate_log, ret, auxVars>>

\* after emit_transaction, a failed transaction, a Student that is not
\* confident and a buffer below the threshold: emit_metrics, return
ProcessBuffered(c) ==
    /\ ctx[c].pc = "emit_transaction"
    /\ ctx[c].txn.status = "failed"
    /\ LET r == is_confident(learner, ctx[c].txn)
       IN  /\ ~r.is_confident
           /\ ~(Len(recent_failures) >= FAILURE_THRESHOLD)
           /\ learner' = r.learner
           /\ metrics' = [metrics EXCEPT !.student_confidence = r.confidence]
           /\ ctx' = [ctx EXCEPT ![c] =
                 [ @ EXCEPT !.pc = "emit_metrics",
                            !.queried = TRUE,
                            !.is_confident = r.is_confident,
                            !.predicted_action = r.action,
                            !.confidence = r.confidence,
                            !.out = Append(@, emit_metrics(metrics')) ]]
    /\ UNCHANGED <<recent_failures, nextId, nPending, learn_log, debate_log, ret, auxVars>>

\* the slow path after emit_council_debate: the teacher's decision is counted
\* and emitted
ProcessTeacherDecision(c) ==
    /\ ctx[c].pc = "emit_council_debate"
    /\ LET decision == ctx[c].debate.final_decision
       IN  /\ metrics' = [metrics EXCEPT !.teacher_decisions = @ + 1]
           /\ ctx' = [ctx EXCEPT ![c] =
                 [ @ EXCEPT !.pc = "emit_decision_slow",
                            !.decision = decision,
                            !.out = Append(@, emit_decision(decision, ctx[c].txn)) ]]
    /\ UNCHANGED <<learner, recent_failures, nextId, nPending, learn_log, debate_log, ret, auxVars>>

\* a buffer cleared before the training loop runs over it
ProcessTrain_ClearFirst(c) ==
    /\ ctx[c].pc = "emit_decision_slow"
    /\ recent_failures' = <<>>
    /\ learner' = LearnAll(learner, recent_failures', ctx[c].decision)
    /\ learn_log' = learn_log \o Ids(recent_failures')
    /\ ctx' = [ctx EXCEPT ![c] =
          [ @ EXCEPT !.pc = "emit_metrics",
                     !.trained = Ids(recent_failures),
                     !.out = Append(@, emit_metrics(metrics)) ]]
    /\ UNCHANGED <<metrics, nextId, nPending, debate_log, ret, auxVars>>

\* a training loop that leaves the buffer as it is
ProcessTrain_NoClear(c) ==
    /\ ctx[c].pc = "emit_decision_slow"
    /\ learner' = LearnAll(learner, recent_failures, ctx[c].decision)
    /\ learn_log' = learn_log \o Ids(recent_failures)
    /\ ctx' = [ctx EXCEPT ![c] =
          [ @ EXCEPT !.pc = "emit_metrics",
                     !.trained = Ids(recent_failures),
                     !.out = Append(@, emit_metrics(metrics)) ]]
    /\ UNCHANGED <<recent_failures, metrics, nextId, nPending, debate_log, ret, auxVars>>

\* the slow path after emit_decision: the Student learns every transaction
\* now in the buffer, the buffer is cleared, emit_metrics
ProcessTrain(c) ==
    /\ ctx[c].pc = "emit_decision_slow"
    /\ learner' = LearnAll(learner, recent_failures, ctx[c].decision)
    /\ learn_log' = learn_log \o Ids(recent_failures)
    /\ recent_failures' = <<>>
    /\ ctx' = [ctx EXCEPT ![c] =
          [ @ EXCEPT !.pc = "emit_metrics",
                     !.trained = Ids(recent_failures),
                     !.out = Append(@, emit_metrics(metrics)) ]]
    /\ UNCHANGED <<metrics, nextId, nPending, debate_log, ret, auxVars>>

\* a fast path that trains the Student on its own decision
ProcessFastDone_Learns(c) ==
    /\ ctx[c].pc = "emit_decision_fast"
    /\ learner' = learn(learner, ctx[c].txn, ctx[c].decision)
    /\ learn_log' = Append(learn_log, ctx[c].txn.id)
    /\ ctx' = [ctx EXCEPT ![c].pc = "emit_metrics",
                          ![c].out = Append(@, emit_metrics(metrics))]
    /\ UNCHANGED <<recent_failures, metrics, nextId, nPending, debate_log, ret, auxVars>>

\* the fast path after emit_decision: emit_metrics
ProcessFastDone(c) ==
    /\ ctx[c].pc = "emit_decision_fast"
    /\ ctx' = [ctx EXCEPT ![c].pc = "emit_metrics",
                          ![c].out = Append(@, emit_metrics(metrics))]
    /\ UNCHANGED <<learner, recent_failures, metrics, nextId, nPending,
                   learn_log, debate_log, ret, auxVars>>

\* emit_metrics has returned: process_transaction returns
ProcessReturn(c) ==
    /\ ctx[c].pc = "emit_metrics"
    /\ ctx' = [ctx EXCEPT ![c].pc = "idle"]
    /\ UNCHANGED <<learner, recent_failures, metrics, nextId, nPending,
                   learn_log, debate_log, ret, auxVars>>

\* the answers of the backend to the role calls of a debate started by the loop
LoopAgentBackends == {Backend("record", NoFields), Backend("non_record", NoFields)}

LoopManagerBackends ==
    { Backend("record", [k \in {"final_action", "confidence"} |->
                            IF k = "final_action" THEN Str("switch_gateway") ELSE Num(80)]) }

\* process_transaction in context c resumes after an await
process_resume(c) ==
    \/ ProcessNotFailed(c)
    \/ ProcessFastPath(c)
    \/ \E a \in TeacherActions, k \in TeacherConfidences : ProcessDebate(c, a, k)
    \/ \E rb, gb \in LoopAgentBackends, mb \in LoopManagerBackends :
          ProcessDebateLLM(c, rb, gb, mb)
    \/ ProcessBuffered(c)
    \/ ProcessTeacherDecision(c)
    \/ ProcessTrain(c)
    \/ ProcessFastDone(c)
    \/ ProcessReturn(c)

\* one step of process_transaction in context c, for a transaction of any status
process_transaction(c, cap) ==
    \/ \E status \in TransactionStatus : ProcessStart(c, status, cap)
    \/ process_resume(c)

\* process_transaction called on one transaction after the other
Next == process_transaction(1, MaxEvents)

Spec == Init /\ [][Next]_vars

\* ------------------------------------------------------------ calls on the learner

\* the transactions the learner is queried with
TestTransactions == {Transaction(1, "failed"), Transaction(2, "success")}

\* the labels the learner is trained with
LearnLabels == {"switch_gateway", "no_action"}

RECURSIVE LabelChanges(_)
LabelChanges(q) ==
    IF Len(q) <= 1 THEN 0
    ELSE (IF q[1].council_action # q[2].council_action THEN 1 ELSE 0)
         + LabelChanges(Tail(q))

LastLabel(L) ==
    IF L.recent_decisions = <<>> THEN "none"
    ELSE L.recent_decisions[Len(L.recent_decisions)].council_action

\* predict calls recorded in the confidence history that learn did not make
QueriesMade(L) ==
    Len(L.confidence_history) - (IF L.samples_seen = 0 THEN 0 ELSE L.samples_seen - 1)

LearnCall(a) ==
    /\ LET txn == Transaction(learner.samples_seen + 1, "failed")
       IN  /\ learner' = learn(learner, txn, Decision(a, 50, "teacher"))
           /\ ret' = Result("learn", txn, FALSE, a, 0, NoStats)
    /\ UNCHANGED <<routerVars, auxVars>>

PredictCall(txn) ==
    /\ LET p == predict(learner, txn)
       IN  /\ learner' = p.learner
           /\ ret' = Result("predict", txn, FALSE, p.action, p.confidence, NoStats)
    /\ UNCHANGED <<routerVars, auxVars>>

IsConfidentCall(txn) ==
    /\ LET r == is_confident(learner, txn)
       IN  /\ learner' = r.learner
           /\ ret' = Result("is_confident", txn, r.is_confident, r.action,
                            r.confidence, NoStats)
    /\ UNCHANGED <<routerVars, auxVars>>

\* a get_stats that records the average it reports in the confidence history
GetStatsCall_Recording ==
    /\ ret' = Result("get_stats", NoTxn, FALSE, "none", 0, get_stats(learner))
    /\ learner' = [learner EXCEPT !.confidence_history =
                      DequeAppend(@, get_average_confidence(learner),
                                  CONFIDENCE_HISTORY_MAXLEN)]
    /\ UNCHANGED <<routerVars, auxVars>>

GetStatsCall ==
    /\ ret' = Result("get_stats", NoTxn, FALSE, "none", 0, get_stats(learner))
    /\ UNCHANGED learner
    /\ UNCHANGED <<routerVars, auxVars>>

\* save(filepath)
SaveCall ==
    /\ disk' = File(TRUE, save(learner), learner)
    /\ ret' = Result("save", NoTxn, FALSE, "none", 0, NoStats)
    /\ UNCHANGED <<learner, routerVars, councilVars, model_error, session_state, lifeVars,
                   chaosVars, transportVars>>

\* load(filepath) on the learner; the result's flag is the value load returns
LoadCall ==
    /\ LET r == load(learner, disk)
       IN  /\ learner' = r.learner
           /\ ret' = Result("load", NoTxn, r.ok, "none", 0, NoStats)
    /\ UNCHANGED <<routerVars, councilVars, disk, model_error, session_state, lifeVars,
                   chaosVars, transportVars>>

\* load(filepath) on a learner just constructed, which replaces the learner
LoadFreshCall ==
    /\ LET r == load(NewLearner, disk)
       IN  /\ learner' = r.learner
           /\ ret' = Result("load_fresh", NoTxn, r.ok, "none", 0, NoStats)
    /\ UNCHANGED <<routerVars, councilVars, disk, model_error, session_state, lifeVars,
                   chaosVars, transportVars>>

LearnerNext ==
    \/ /\ learner.samples_seen < MaxLearnCalls
       /\ \E a \in LearnLabels :
             /\ (LastLabel(learner) \notin {"none", a})
                   => LabelChanges(learner.recent_decisions) < MaxLabelChanges
             /\ LearnCall(a)
    \/ /\ QueriesMade(learner) < MaxQueries
       /\ \E txn \in TestTransactions : PredictCall(txn)
    \/ /\ QueriesMade(learner) < MaxQueries
       /\ \E txn \in TestTransactions : IsConfidentCall(txn)
    \/ GetStatsCall

LearnerSpec == Init /\ [][LearnerNext]_vars

\* ------------------------------------------------------------ calls on a council

\* the batches the councils are called with
TestBatches == {<<>>, <<Transaction(1, "failed")>>}

LLMDebateCall(batch, risk_backend, growth_backend, manager_backend) ==
    /\ council_ret' =
          [ prev |-> NoCall,
            last |-> Call("llm", batch, <<risk_backend, growth_backend, manager_backend>>,
                          LLMDebate(batch, risk_backend, growth_backend, manager_backend)) ]
    /\ UNCHANGED <<learner, routerVars, ret, council, disk, model_error, session_state,
                   lifeVars, chaosVars, transportVars>>

MockDebateCall(batch, selected_action, confidence) ==
    /\ council_ret' =
          [ prev |-> IF council_ret.last.council = "mock" THEN council_ret.last ELSE NoCall,
            last |-> Call("mock", batch, <<>>,
                          MockDebate(batch, selected_action, confidence)) ]
    /\ UNCHANGED <<learner, routerVars, ret, council, disk, model_error, session_state,
                   lifeVars, chaosVars, transportVars>>

CouncilNext ==
    \/ \E batch \in TestBatches, rb, gb \in AgentBackends, mb \in ManagerBackends :
          LLMDebateCall(batch, rb, gb, mb)
    \/ \E batch \in TestBatches, a \in MockActions, k \in MockConfidences :
          MockDebateCall(batch, a, k)

CouncilSpec == Init /\ [][CouncilNext]_vars

\* ------------------------------------------------------------ save and load

\* learn calls and queries made on a learner that is saved and loaded
MaxPersistLearns == 2
MaxPersistQueries == 1

PersistNext ==
    \/ /\ learner.samples_seen < MaxPersistLearns
       /\ Len(learner.recent_decisions) < MaxPersistLearns
       /\ \E a \in LearnLabels : LearnCall(a)
    \/ /\ QueriesMade(learner) < MaxPersistQueries
       /\ \E txn \in TestTransactions : PredictCall(txn)
    \/ /\ QueriesMade(learner) < MaxPersistQueries
       /\ \E txn \in TestTransactions : IsConfidentCall(txn)
    \/ GetStatsCall
    \/ SaveCall
    \/ LoadCall
    \/ LoadFreshCall

PersistSpec == Init /\ [][PersistNext]_vars

\* ------------------------------------------------------------ properties

Decisions(out) == SelectSeq(out, LAMBDA m : m.type = "decision")
Debates(out) == SelectSeq(out, LAMBDA m : m.type = "council_debate")
AllFailed(q) == \A i \in 1..Len(q) : q[i].status = "failed"

\* the context of the sequential transaction loop
Loop == ctx[1]

\* C1: is_confident answers False for every transaction while samples_seen is
\* below the 20-sample floor, whatever confidence predict reports; a True
\* answer is only ever returned with samples_seen >= 20.
C1_WarmUpFloor ==
    /\ \A txn \in TestTransactions :
          learner.samples_seen < 20 => ~is_confident(learner, txn).is_confident
    /\ (ret.op = "is_confident" /\ ret.is_confident) => learner.samples_seen >= 20

\* after exactly 19 learn calls: a raw confidence over the threshold, answer False
C1_Witness ==
    /\ learner.samples_seen = 19
    /\ ret.op = "is_confident"
    /\ ret.confidence >= STUDENT_CONFIDENCE_THRESHOLD
    /\ ~ret.is_confident

\* C2: is_confident answers True exactly when predict's confidence in the same
\* model state is >= the threshold and samples_seen >= 20, and the action and
\* confidence it returns are predict's.
C2_GateExact ==
    ret.op = "is_confident" =>
        LET p == predict(learner, ret.txn)
        IN  /\ ret.is_confident <=>
                  (p.confidence >= 90 /\ learner.samples_seen >= 20)
            /\ ret.action = p.action
            /\ ret.confidence = p.confidence

C2_Witness ==
    /\ ret.op = "is_confident"
    /\ ret.is_confident
    /\ ret.confidence = 90

\* C3: a Decision emitted with source student was produced for a transaction
\* on which is_confident answered True at that moment (confidence >= threshold,
\* samples_seen >= 20); every other emitted Decision has source teacher.
C3_StudentOnlyIfConfident ==
    \A i \in 1..Len(Decisions(Loop.out)) :
        LET d == Decisions(Loop.out)[i].decision
        IN  IF d.agent_source = "student"
            THEN /\ Loop.is_confident
                 /\ d.confidence_score >= 90
                 /\ Loop.pre_learner.samples_seen >= 20
                 /\ d.action = predict(Loop.pre_learner, Loop.txn).action
            ELSE /\ d.agent_source = "teacher"
                 /\ ~Loop.is_confident

C3_Witness ==
    /\ Loop.pc = "idle"
    /\ Len(Decisions(Loop.out)) = 1
    /\ Decisions(Loop.out)[1].decision.agent_source = "student"

\* C4: every batch passed to debate has exactly FAILURE_THRESHOLD entries, and
\* the buffer is empty when that escalation cycle has completed.
C4_DebateAtThreshold ==
    /\ \A i \in 1..Len(debate_log) : Len(debate_log[i]) = FAILURE_THRESHOLD
    /\ (Loop.pc = "idle" /\ Loop.debate # NoDebate) => recent_failures = <<>>

C6_FastPathBufferUntouched ==
    Loop.decision.agent_source = "student" => recent_failures = Loop.pre_buffer

\* C7: a success transaction is never appended to the buffer, never makes the
\* router query the Student or call the council, and never yields a Decision.
C7_SuccessIgnored ==
    Loop.txn.status = "success" =>
        /\ recent_failures = Loop.pre_buffer
        /\ ~Loop.queried
        /\ learner = Loop.pre_learner
        /\ Loop.debate = NoDebate
        /\ Decisions(Loop.out) = <<>>
        /\ Debates(Loop.out) = <<>>

C7_Witness ==
    /\ Loop.txn.status = "success"
    /\ Loop.pc = "idle"
    /\ Len(recent_failures) = FAILURE_THRESHOLD - 1

\* C8: under sequential processing no transaction is passed to learn twice,
\* and the buffer is empty as soon as the training loop that consumed it is
\* over.
C8_LearnedAtMostOnce ==
    /\ \A i, j \in 1..Len(learn_log) : (i # j) => (learn_log[i] # learn_log[j])
    /\ Loop.trained # <<>> => recent_failures = <<>>

C8_Witness ==
    /\ Loop.pc = "idle"
    /\ Len(debate_log) = 2
    /\ Len(learn_log) >= 2 * FAILURE_THRESHOLD

\* ------------------------------------------------------------ the running loop

\* transactions the loop generates before the source is allowed to stop
FairEvents == 21

\* The source may stop only between escalation cycles: while the buffer holds
\* a transaction, up to FAILURE_THRESHOLD further transactions are generated,
\* which is enough for a buffer that escalates at the threshold to be emptied.
FairCap ==
    IF recent_failures = <<>> THEN FairEvents ELSE FairEvents + FAILURE_THRESHOLD

\* the statuses TransactionSimulator.generate_transaction produces
SimulatorStatuses == {"success", "failed"}

\* transaction_loop: generate_transaction, then process_transaction
transaction_loop(c, cap) ==
    \/ \E status \in SimulatorStatuses : ProcessStart(c, status, cap)
    \/ process_resume(c)

FairNext == transaction_loop(1, FairCap)

\* transaction_loop never stops between two steps of process_transaction, and
\* the simulator's failure rate is positive: failed transactions keep coming.
FairSpec ==
    /\ Init
    /\ [][FairNext]_vars
    /\ WF_vars(FairNext)
    /\ SF_vars(ProcessStart(1, "failed", FairCap))

InBuffer(i) == \E k \in 1..Len(recent_failures) : recent_failures[k].id = i

Occurrences(q, i) == Cardinality({k \in 1..Len(q) : q[k] = i})

RECURSIVE Flatten(_)
Flatten(qq) == IF qq = <<>> THEN <<>> ELSE Head(qq) \o Flatten(Tail(qq))

\* consumed: out of the buffer, after exactly one debate batch and one learn call
Consumed(i) ==
    /\ ~InBuffer(i)
    /\ Occurrences(learn_log, i) = 1
    /\ Occurrences(Flatten(debate_log), i) = 1

ConcNext ==
    \/ transaction_loop(1, MaxConcEvents)
    \/ transaction_loop(2, SecondLoopEvents)

ConcSpec == Init /\ [][ConcNext]_vars

\* between the debate call and the end of the training loop
InEscalation(c) == ctx[c].pc \in {"emit_council_debate", "emit_decision_slow"}

\* C10: with several process_transaction calls in flight there is at most one
\* escalation in flight, no transaction is deliberated twice or trained twice,
\* and an escalation trains and clears exactly the batch its debate was given.
C10_OneEscalationInFlight ==
    /\ Cardinality({c \in Contexts : InEscalation(c)}) <= 1
    /\ \A i \in 1..nextId :
          /\ Occurrences(Flatten(debate_log), i) <= 1
          /\ Occurrences(learn_log, i) <= 1
    /\ \A c \in Contexts :
          (ctx[c].debate # NoDebate /\ ctx[c].pc \in {"emit_metrics", "idle"})
              => ctx[c].trained = Ids(ctx[c].debate.batch)

\* ------------------------------------------------------------ the council

\* every role call of the debate failed inside the backend
TotalBackendFailure(call) ==
    /\ call.council = "llm"
    /\ \A i \in 1..Len(call.backends) : call.backends[i].kind = "api_error"

\* C11: when each of the three role calls raises inside the backend, debate
\* does not raise and returns the final Decision no_action at the neutral
\* confidence 0.5 with source teacher.
C11_TotalFailureFallback ==
    TotalBackendFailure(council_ret.last) =>
        /\ council_ret.last.result.exception = "none"
        /\ council_ret.last.result.final_decision = Decision("no_action", 50, "teacher")

\* a role call whose output is malformed: text that is not JSON, JSON that is
\* not an object, an action outside the enumeration, a confidence that is not
\* a number in [0,1]
Malformed(backend) ==
    \/ backend.kind \in {"unparseable", "non_record"}
    \/ /\ backend.kind = "record"
       /\ \/ ~IsActionType(DictGet(backend.d, "suggested_action", Str("no_action")))
          \/ ~IsActionType(DictGet(backend.d, "final_action", Str("no_action")))
          \/ ~FloatOk(DictGet(backend.d, "confidence", Num(50)))
          \/ Float(DictGet(backend.d, "confidence", Num(50))) \notin 0..100

\* exactly one of the role calls returned malformed output, the others a
\* well-formed object
SingleMalformed(backends) ==
    /\ Cardinality({i \in 1..Len(backends) : Malformed(backends[i])}) = 1
    /\ \A i \in 1..Len(backends) :
          ~Malformed(backends[i]) => backends[i].kind = "record"

\* what a malformed value makes debate raise: .get on a value that is no dict,
\* ActionType or float on a value they reject, Decision on a confidence out of
\* range
MalformedOutputErrors == {"AttributeError", "ValueError", "ValidationError"}

\* C12: when a single role call returns malformed output, the failure does not
\* leave debate: the malformed value raises nothing into process_transaction
\* and does not terminate the transaction loop.
C12_MalformedAbsorbed ==
    \A c \in Contexts :
        SingleMalformed(ctx[c].backends) =>
            ~(ctx[c].pc = "raised" /\ ctx[c].exception \in MalformedOutputErrors)

\* ------------------------------------------------------------ the slow path

\* the learn calls of the call in progress, as the learner recorded them
LearnedInCall == learner.samples_seen - Loop.pre_learner.samples_seen

Op(name) == ret'.op = name

C15_QueriesKeepCounters ==
    [][ (Op("get_stats") \/ Op("predict") \/ Op("is_confident")) =>
            /\ learner'.samples_seen = learner.samples_seen
            /\ learner'.correct_predictions = learner.correct_predictions ]_vars

\* a query answered from a trained model, which it recorded in the history
C15_Witness ==
    /\ ret.op \in {"predict", "is_confident"}
    /\ ret.confidence > 0
    /\ learner.samples_seen = MaxPersistLearns
    /\ learner.correct_predictions = 1
    /\ QueriesMade(learner) = MaxPersistQueries

\* the outputs of predict over a sequence of events
RECURSIVE PredictOutputs(_, _)
PredictOutputs(L, events) ==
    IF events = <<>> THEN <<>>
    ELSE LET p == predict(L, Head(events))
         IN  <<[action |-> p.action, confidence |-> p.confidence]>>
                 \o PredictOutputs(p.learner, Tail(events))

\* the sequences of test events predict is compared on
TestSequences ==
    {<<>>} \cup {<<a>> : a \in TestTransactions}
           \cup {<<a, b>> : a \in TestTransactions, b \in TestTransactions}

\* C16: after save and a load that succeeded, into the same or a fresh
\* learner, samples_seen, correct_predictions, the confidence history and the
\* classifier are those of the learner that was saved, and predict returns
\* the same outputs on every sequence of test events as that learner did.
C16_SaveLoadRoundTrip ==
    (ret.op \in {"load", "load_fresh"} /\ ret.is_confident) =>
        /\ learner.samples_seen = disk.saved_from.samples_seen
        /\ learner.correct_predictions = disk.saved_from.correct_predictions
        /\ learner.confidence_history = disk.saved_from.confidence_history
        /\ learner.model = disk.saved_from.model
        /\ \A events \in TestSequences :
              PredictOutputs(learner, events) = PredictOutputs(disk.saved_from, events)

\* a fresh learner loaded from the file of a trained one
C16_Witness ==
    /\ ret.op = "load_fresh"
    /\ ret.is_confident
    /\ learner.samples_seen = MaxPersistLearns
    /\ learner.confidence_history # <<>>
    /\ learner.recent_decisions = <<>>

\* ------------------------------------------------------------ predict's failure semantics

\* C17: predict answers (no_action, 0) when the model has no distribution yet
\* or the classifier raises, and the router treats that answer as not
\* confident: no student Decision, the transaction stays on the slow path
\* (buffered, or debated and trained on).
C17_PredictAbsorbsErrors ==
    /\ \A txn \in TestTransactions :
          (model_error \/ ModelWeight(learner.model) = 0) =>
              /\ predict(learner, txn).action = "no_action"
              /\ predict(learner, txn).confidence = 0
    /\ (Loop.queried /\ (model_error \/ ModelWeight(Loop.pre_learner.model) = 0)) =>
          /\ Loop.predicted_action = "no_action"
          /\ Loop.confidence = 0
          /\ ~Loop.is_confident
          /\ \A i \in 1..Len(Decisions(Loop.out)) :
                Decisions(Loop.out)[i].decision.agent_source = "teacher"
          /\ \/ \E k \in 1..Len(recent_failures) : recent_failures[k] = Loop.txn
             \/ \E k \in 1..Len(Loop.trained) : Loop.trained[k] = Loop.txn.id

\* a Student trained on 20 samples whose classifier raises: the 21st failure
\* is not decided by the Student
C17_Witness ==
    /\ model_error
    /\ Loop.queried
    /\ Loop.pc = "idle"
    /\ Loop.pre_learner.samples_seen >= MIN_SAMPLES
    /\ ~Loop.is_confident

\* ------------------------------------------------------------ the transport

\* WebSocket clients that may be connected at a time
\* what a client's send_text may do
SendKinds == {"ok", "raises", "hangs"}

ConnectedIds == {cl.id : cl \in connected_clients}

\* the await of process_transaction in context c: which message of which
\* transaction it is broadcasting
Awaited(c) == <<ctx[c].txn.id, Len(ctx[c].out)>>

\* process_transaction in context c is suspended in an emit_* call
AtAwait(c) == ctx[c].pc \notin {"idle", "raised"}

\* the broadcast that context c awaits has returned
Served(c) == AtAwait(c) => (bcast.state = "idle" /\ bcast.serves = Awaited(c))

\* broadcast is entered: it returns at once when there is no client, else it
\* starts iterating over state.connected_clients itself
BroadcastStart(c) ==
    /\ AtAwait(c)
    /\ bcast.state = "idle"
    /\ bcast.serves # Awaited(c)
    /\ bcast' = IF connected_clients = {}
                THEN Broadcast("idle", Awaited(c), 0, {}, NoClient, {})
                ELSE Broadcast("iterating", Awaited(c),
                               Cardinality(connected_clients),
                               connected_clients, NoClient, {})
    /\ UNCHANGED <<learner, routerVars, ret, councilVars, disk, model_error, session_state,
                   lifeVars, chaosVars,
                   connected_clients>>

\* the for loop asks the set iterator for the next client and awaits its
\* send_text
BroadcastSend(c) ==
    /\ bcast.state = "iterating"
    /\ Cardinality(connected_clients) = bcast.iter_size
    /\ \E client \in bcast.pending :
          bcast' = [bcast EXCEPT !.state = "sending",
                                 !.pending = @ \ {client},
                                 !.current = client]
    /\ UNCHANGED <<learner, routerVars, ret, councilVars, disk, model_error, session_state,
                   lifeVars, chaosVars,
                   connected_clients>>

\* send_text returns
SendReturns(c) ==
    /\ bcast.state = "sending"
    /\ bcast.current.kind = "ok"
    /\ bcast' = [bcast EXCEPT !.state = "iterating", !.current = NoClient]
    /\ UNCHANGED <<learner, routerVars, ret, councilVars, disk, model_error, session_state,
                   lifeVars, chaosVars,
                   connected_clients>>

\* send_text raises: the except clause notes the client as disconnected
SendRaises(c) ==
    /\ bcast.state = "sending"
    /\ bcast.current.kind = "raises"
    /\ bcast' = [bcast EXCEPT !.state = "iterating",
                              !.current = NoClient,
                              !.disconnected = @ \cup {bcast.current}]
    /\ UNCHANGED <<learner, routerVars, ret, councilVars, disk, model_error, session_state,
                   lifeVars, chaosVars,
                   connected_clients>>

\* the set iterator is exhausted: the disconnected clients are removed and
\* broadcast returns
BroadcastReturn(c) ==
    /\ bcast.state = "iterating"
    /\ Cardinality(connected_clients) = bcast.iter_size
    /\ bcast.pending = {}
    /\ connected_clients' = connected_clients \ bcast.disconnected
    /\ bcast' = [bcast EXCEPT !.state = "idle", !.disconnected = {},
                              !.changes = 0]
    /\ UNCHANGED <<learner, routerVars, ret, councilVars, disk, model_error, session_state,
                   lifeVars, chaosVars>>

\* the set iterator finds that the set changed size during the iteration:
\* RuntimeError, raised at the for statement, outside the try; it leaves
\* broadcast, process_transaction and transaction_loop
BroadcastRaises(c) ==
    /\ bcast.state = "iterating"
    /\ Cardinality(connected_clients) # bcast.iter_size
    /\ bcast' = [bcast EXCEPT !.state = "raised"]
    /\ ctx' = [ctx EXCEPT ![c].pc = "raised", ![c].exception = "RuntimeError"]
    /\ UNCHANGED <<learner, recent_failures, metrics, nextId, nPending,
                   learn_log, debate_log, ret, councilVars, disk, model_error, session_state,
                   lifeVars, chaosVars,
                   connected_clients>>

\* broadcast, called by the emit_* call that context c awaits
broadcast(c) ==
    \/ BroadcastStart(c)
    \/ BroadcastSend(c)
    \/ SendReturns(c)
    \/ SendRaises(c)
    \/ BroadcastReturn(c)
    \/ BroadcastRaises(c)

\* changes of the client set during one broadcast
MaxSetChanges == 2

\* a broadcast is suspended in its for loop
InBroadcast ==
    /\ bcast.state \in {"iterating", "sending"}
    /\ bcast.changes < MaxSetChanges

\* websocket_endpoint of a further client, run while a broadcast is suspended:
\* the client is added to the set; the running iterator meets the new entry
\* or not, by its place in the table
Connect(id, kind, met) ==
    /\ InBroadcast
    /\ connected_clients # {}
    /\ id \notin ConnectedIds
    /\ connected_clients' = connected_clients \cup {Client(id, kind)}
    /\ bcast' = [bcast EXCEPT !.changes = @ + 1,
                              !.pending =
                     IF met THEN @ \cup {Client(id, kind)} ELSE @]
    /\ endpoints' = [endpoints EXCEPT ![id] = Endpoint("send_metrics", Client(id, kind))]
    /\ UNCHANGED <<learner, routerVars, ret, councilVars, disk, model_error, session_state,
                   is_running, loop_tasks, chaosVars>>

\* websocket_endpoint, WebSocketDisconnect of a client that is not the last
\* one, run while a broadcast is suspended: the client is discarded from the
\* set
Disconnect(client) ==
    /\ InBroadcast
    /\ client \in connected_clients
    /\ Cardinality(connected_clients) > 1
    /\ connected_clients' = connected_clients \ {client}
    /\ bcast' = [bcast EXCEPT !.changes = @ + 1, !.pending = @ \ {client}]
    /\ endpoints' = [endpoints EXCEPT ![client.id] = Endpoint("none", NoClient)]
    /\ UNCHANGED <<learner, routerVars, ret, councilVars, disk, model_error, session_state,
                   is_running, loop_tasks, chaosVars>>

websocket_endpoint ==
    \/ \E id \in ClientIds, kind \in SendKinds, met \in BOOLEAN :
          Connect(id, kind, met)
    \/ \E client \in connected_clients : Disconnect(client)

\* the loop's task resumes only when the broadcast it awaits has returned
LoopStep(c, cap) ==
    /\ Served(c)
    /\ transaction_loop(c, cap)

\* the first client has connected and its endpoint has started the loop
TransportInit ==
    /\ RouterInit
    /\ \E kind \in SendKinds : connected_clients = {Client(1, kind)}
    /\ bcast = IdleBroadcast
    /\ session_state = NewSession
    /\ is_running = TRUE
    /\ loop_tasks = [NoTasks EXCEPT ![1] = Task("running", 0)]
    /\ \E cl \in connected_clients : endpoints = [NoEndpoints EXCEPT ![1] = Endpoint("receive", cl)]

\* transactions generated while the transport is observed
MaxTransportEvents == 12

TransportNext ==
    \/ LoopStep(1, MaxTransportEvents)
    \/ broadcast(1)
    \/ websocket_endpoint

TransportSpec == TransportInit /\ [][TransportNext]_vars

\* process_transaction is suspended on a send_text that never completes
BlockedOnSend == bcast.state = "sending" /\ bcast.current.kind = "hangs"

\* C18: a failure of the transport layer (a send that raises, a send that
\* never completes, the client set changing during a broadcast) neither raises
\* out of process_transaction nor blocks it.
C18_TransportFailureLocal ==
    /\ ~(ctx[1].pc = "raised" /\ ctx[1].exception = "RuntimeError")
    /\ ~BlockedOnSend

\* ------------------------------------------------------------ the substitute council

\* the last two debate calls were made on the MockCouncil with the same batch
SameBatchMockCalls ==
    /\ council_ret.prev.council = "mock"
    /\ council_ret.last.council = "mock"
    /\ council_ret.prev.batch = council_ret.last.batch

\* C19: two debate calls of the MockCouncil on the same batch of failure events
\* return the same final Decision (same action and same confidence).
C19_MockDeterministic ==
    SameBatchMockCalls =>
        /\ council_ret.prev.result.final_decision.action =
               council_ret.last.result.final_decision.action
        /\ council_ret.prev.result.final_decision.confidence_score =
               council_ret.last.result.final_decision.confidence_score

\* ------------------------------------------------------------ the metrics

\* a process_transaction call has started on a new event in this step
EventProcessed == nextId' = nextId + 1

\* the status of the event the step has started on
EventStatus == ctx'[1].txn.status

\* C20: over any sequence of events, total_transactions counts the events
\* processed, failed_transactions counts those whose status is failed,
\* total_transactions = successful_transactions + failed_transactions, and
\* success_rate = successful_transactions / total_transactions. Stated per
\* event: each counter grows by one exactly for the events it counts.
C20_MetricsCountEvents ==
    [][EventProcessed =>
          /\ metrics'.total_transactions = metrics.total_transactions + 1
          /\ metrics'.total_transactions = nextId'
          /\ metrics'.failed_transactions =
                 metrics.failed_transactions +
                 (IF EventStatus = "failed" THEN 1 ELSE 0)
          /\ metrics'.total_transactions =
                 metrics'.successful_transactions + metrics'.failed_transactions
          /\ metrics'.success_rate =
                 <<metrics'.successful_transactions, metrics'.total_transactions>>
      ]_vars

\* ------------------------------------------------------------ the emissions

\* the types of the messages a call has emitted, in order
Types(out) == [i \in 1..Len(out) |-> out[i].type]

IsPrefix(p, q) == Len(p) <= Len(q) /\ SubSeq(q, 1, Len(p)) = p

\* council.debate was called in the cycle of context c, whether it returned
\* (the CouncilDebate is kept) or raised (the backends' answers are kept)
Deliberated(c) == ctx[c].debate # NoDebate \/ ctx[c].backends # <<>>

\* the emissions of a cycle, by what happened in it
Emissions(deliberated, decided) ==
    <<"transaction">> \o
    (IF deliberated THEN <<"council_debate">> ELSE <<>>) \o
    (IF decided THEN <<"decision">> ELSE <<>>) \o
    <<"metrics">>

\* process_transaction has ended in context c, by return or by exception
Ended(c) == ctx[c].txn # NoTxn /\ ctx[c].pc \in {"idle", "raised"}

\* C21: for every processed event the router emits, in this order, the event
\* once, the CouncilDebate if and only if a deliberation occurred in the cycle,
\* a Decision if and only if one was produced, and finally one metrics snapshot
\* that reflects the event.
C21_EmissionOrder ==
    /\ \E deliberated, decided \in BOOLEAN :
          IsPrefix(Types(Loop.out), Emissions(deliberated, decided))
    /\ Ended(1) =>
          /\ Types(Loop.out) =
                 Emissions(Deliberated(1), Loop.decision # NoDecision)
          /\ Loop.out[1].transaction_id = Loop.txn.id
          /\ \A i \in 1..Len(Loop.out) :
                Loop.out[i].type = "decision" =>
                    /\ Loop.out[i].decision = Loop.decision
                    /\ Loop.out[i].transaction_id = Loop.txn.id
          /\ Loop.out[Len(Loop.out)].data = metrics
          /\ Loop.out[Len(Loop.out)].data.total_transactions = Loop.txn.id

\* ------------------------------------------------------------ the PayPulse agent

\* runs of the agent workflow
MaxRuns == 3

\* what reason_node and decide_node may come to: the degraded issuer ("none"
\* when no issuer is degraded), the confidence and the average amount
AgentTargets == {"none", "visa_eu", "amex"}
AgentConfidences == {60, 80, 90}
AgentAmounts == {50, 100}

\* decide_node: no action below 0.7 confidence or without a degraded issuer
decide_node(target, confidence, avg_amount) ==
    IF confidence < 70 \/ target = "none"
    THEN NoAction
    ELSE Action(target, confidence, avg_amount)

\* act_node: the proposed action is executed when session_state.action_approved
\* is set, and recorded as last_action
act_node(session, proposed_action) ==
    IF proposed_action = NoAction \/ ~session.action_approved
    THEN session
    ELSE [session EXCEPT !.last_action = proposed_action]

\* learn_node: an action executed more than 10 seconds ago is counted
learn_node(session, elapsed) ==
    IF session.last_action # NoAction /\ elapsed
    THEN [session EXCEPT !.action_count = @ + 1]
    ELSE session

\* one run of the workflow in run_simulation (decide, act, learn) and the
\* approval controls that follow it: an action within the guardrails is
\* auto-approved, for one that requires approval the button is shown
AgentRun(target, confidence, avg_amount, elapsed) ==
    /\ session_state.runs < MaxRuns
    /\ LET proposed == decide_node(target, confidence, avg_amount)
           acted    == act_node(session_state, proposed)
           executed == proposed # NoAction /\ session_state.action_approved
           learned  == learn_node(acted, elapsed /\ ~executed)
           auto     == proposed # NoAction /\ ~proposed.requires_approval
       IN  session_state' =
              [ learned EXCEPT
                  !.runs = @ + 1,
                  !.proposed_action = proposed,
                  !.action_approved = IF auto THEN TRUE ELSE @,
                  !.approved_action = IF auto THEN proposed ELSE @,
                  !.approved_by = IF auto THEN "auto" ELSE @ ]
    /\ UNCHANGED <<learner, routerVars, ret, councilVars, disk, model_error, lifeVars, chaosVars,
                   transportVars>>

\* the APPROVE ACTION button of the action shown is pressed
HumanApprove ==
    /\ session_state.proposed_action # NoAction
    /\ session_state.proposed_action.requires_approval
    /\ session_state' =
          [ session_state EXCEPT
              !.action_approved = TRUE,
              !.approved_action = session_state.proposed_action,
              !.approved_by = "human" ]
    /\ UNCHANGED <<learner, routerVars, ret, councilVars, disk, model_error, lifeVars, chaosVars,
                   transportVars>>

\* the ROLLBACK LAST ACTION button is pressed within its window
Rollback ==
    /\ session_state.last_action # NoAction
    /\ session_state' =
          [ session_state EXCEPT
              !.last_action = NoAction,
              !.action_approved = FALSE,
              !.approved_action = NoAction,
              !.approved_by = "none" ]
    /\ UNCHANGED <<learner, routerVars, ret, councilVars, disk, model_error, lifeVars, chaosVars,
                   transportVars>>

AgentNext ==
    \/ \E target \in AgentTargets, confidence \in AgentConfidences,
          avg_amount \in AgentAmounts, elapsed \in BOOLEAN :
          AgentRun(target, confidence, avg_amount, elapsed)
    \/ HumanApprove
    \/ Rollback

AgentSpec == Init /\ [][AgentNext]_vars

\* C22: an action whose requires_approval is True is executed by act_node only
\* when a human approved that action: an approval or auto-approval given for
\* an earlier proposed action does not carry over to it.
C22_ApprovalNotCarriedOver ==
    [][ ( /\ session_state'.last_action # session_state.last_action
          /\ session_state'.last_action.requires_approval )
        => /\ session_state.approved_by = "human"
           /\ session_state.approved_action = session_state'.last_action
      ]_vars

\* ------------------------------------------------------------ below the threshold

\* the cycle of the loop has queried the Student on a failed event, the
\* Student was not confident, and the buffer with the event appended is below
\* the threshold
BelowThreshold ==
    /\ Loop.txn.status = "failed"
    /\ Loop.queried
    /\ ~Loop.is_confident
    /\ Len(Loop.pre_buffer) + 1 < FAILURE_THRESHOLD

\* C23: when the Student is not confident for a failed event and the buffer
\* with the event appended is below the threshold, the cycle emits no
\* Decision, does not call the council, makes no learn call, and leaves the
\* buffer as the previous buffer with this event appended at the end.
C23_BufferedBelowThreshold ==
    BelowThreshold =>
        /\ Decisions(Loop.out) = <<>>
        /\ Loop.decision = NoDecision
        /\ Debates(Loop.out) = <<>>
        /\ ~Deliberated(1)
        /\ learner.samples_seen = Loop.pre_learner.samples_seen
        /\ learner.correct_predictions = Loop.pre_learner.correct_predictions
        /\ learner.model = Loop.pre_learner.model
        /\ recent_failures = Append(Loop.pre_buffer, Loop.txn)

C23_Witness ==
    /\ BelowThreshold
    /\ Loop.pc = "idle"
    /\ Len(Loop.pre_buffer) = FAILURE_THRESHOLD - 2
    /\ learner.samples_seen >= FAILURE_THRESHOLD

\* ------------------------------------------------------------ the buffer's contents

\* C24: the buffer holds only events whose status is failed: an event with
\* status success or pending is never buffered, never passed to the council's
\* debate and never used in a learn call.
C24_OnlyFailedBuffered ==
    [][ /\ AllFailed(recent_failures')
        /\ AllFailed(ctx'[1].debate.batch)
        /\ (learn_log' # learn_log => AllFailed(recent_failures))
      ]_vars

\* ------------------------------------------------------------ the role calls

\* the last debate call made on the LLMCouncil
LastLLMCall == council_ret.last.council = "llm"

\* C25: each LLMCouncil.debate call makes exactly three role calls in the
\* order Risk, Growth, Manager; the Manager is called only after both
\* arguments exist, and only its output determines the final Decision's
\* action and confidence.
C25_ThreeRoleCalls ==
    LastLLMCall =>
        /\ council_ret.last.result.calls = <<"risk", "growth", "manager">>
        /\ council_ret.last.result.risk_argument # NoArgument
        /\ council_ret.last.result.growth_argument # NoArgument
        /\ council_ret.last.result.final_decision =
               ManagerDecision(_call_agent(council_ret.last.backends[3]))

\* ------------------------------------------------------------ the council's Decision

\* the last debate call returned a CouncilDebate
LastCallReturned ==
    /\ council_ret.last.council \in CouncilKinds
    /\ council_ret.last.result.exception = "none"

\* C26: every Decision a council's debate returns, for any batch including
\* the empty one, has source teacher, an action of the Action enumeration and
\* a confidence in [0,1].
C26_TeacherDecisionValid ==
    /\ LastCallReturned =>
          /\ council_ret.last.result.final_decision.agent_source = "teacher"
          /\ council_ret.last.result.final_decision.action \in ActionType
          /\ council_ret.last.result.final_decision.confidence_score \in 0..100
    /\ \A manager_backend \in ManagerBackends :
          LET response == _call_agent(manager_backend)
          IN  DecisionRaises(response) = "none" =>
                 /\ ManagerDecision(response).agent_source = "teacher"
                 /\ ManagerDecision(response).action \in ActionType
                 /\ ManagerDecision(response).confidence_score \in 0..100

C26_Witness ==
    /\ LastCallReturned
    /\ council_ret.last.batch = <<>>
    /\ council_ret.last.result.final_decision.confidence_score = 95

\* ------------------------------------------------------------ the accuracy tally

MaxOverrun == 2

\* one label and one event: the classifier stays a single pure leaf, whatever
\* the number of samples
WindowLabels == {"switch_gateway"}
WindowTransactions == {Transaction(1, "failed")}

\* the learner's counter was not taken back by a load since its last learn call
CounterInStep ==
    IF learner.recent_decisions = <<>> THEN TRUE
    ELSE learner.recent_decisions[Len(learner.recent_decisions)].transaction_id
             = learner.samples_seen

\* learn, predict, get_stats and load calls in any order and number; the
\* learner is saved once, when its confidence history is full
WindowNext ==
    \/ /\ learner.samples_seen < RECENT_DECISIONS_MAXLEN + MaxOverrun
       /\ CounterInStep
       /\ \E a \in WindowLabels : LearnCall(a)
    \/ \E txn \in WindowTransactions : PredictCall(txn)
    \/ GetStatsCall
    \/ /\ ~disk.exists
       /\ Len(learner.confidence_history) = CONFIDENCE_HISTORY_MAXLEN
       /\ SaveCall
    \/ LoadCall

WindowSpec == Init /\ [][WindowNext]_vars

\* q2 is q1 with x appended, the oldest entry dropped when q1 held n entries
Rolled(q1, x, q2, n) ==
    /\ Len(q2) <= n
    /\ q2[Len(q2)] = x
    /\ IF Len(q1) = n
       THEN SubSeq(q2, 1, n - 1) = Tail(q1)
       ELSE SubSeq(q2, 1, Len(q2) - 1) = q1

\* C28: after any number of learn, predict and load calls the confidence
\* history holds at most 100 entries and the recent-decisions log at most 50,
\* the oldest entries dropped first; get_stats reports at most the 5 most
\* recent decisions.
C28_WindowsBounded ==
    [][ /\ Len(learner'.confidence_history) <= CONFIDENCE_HISTORY_MAXLEN
        /\ Len(learner'.recent_decisions) <= RECENT_DECISIONS_MAXLEN
        /\ Op("learn") =>
              /\ Len(learner'.recent_decisions) =
                     IF Len(learner.recent_decisions) = RECENT_DECISIONS_MAXLEN
                     THEN RECENT_DECISIONS_MAXLEN
                     ELSE Len(learner.recent_decisions) + 1
              /\ Rolled(learner.recent_decisions,
                        learner'.recent_decisions[Len(learner'.recent_decisions)],
                        learner'.recent_decisions, RECENT_DECISIONS_MAXLEN)
              /\ learner'.recent_decisions[Len(learner'.recent_decisions)].transaction_id
                     = ret'.txn.id
        /\ (Op("predict") /\ learner'.confidence_history # learner.confidence_history) =>
              Rolled(learner.confidence_history, ret'.confidence,
                     learner'.confidence_history, CONFIDENCE_HISTORY_MAXLEN)
        /\ Op("load") =>
              /\ learner'.recent_decisions = learner.recent_decisions
              /\ ret'.is_confident =>
                    learner'.confidence_history =
                        LastN(disk.data.confidence_history, CONFIDENCE_HISTORY_MAXLEN)
        /\ Op("get_stats") =>
              /\ Len(ret'.stats.recent_decisions) <= STATS_RECENT
              /\ ret'.stats.recent_decisions =
                     LastN(learner.recent_decisions, STATS_RECENT)
      ]_vars

\* a load on a learner whose two windows are full and have dropped entries
C28_Witness ==
    /\ ret.op = "load"
    /\ ret.is_confident
    /\ Len(learner.confidence_history) = CONFIDENCE_HISTORY_MAXLEN
    /\ Len(learner.recent_decisions) = RECENT_DECISIONS_MAXLEN
    /\ learner.recent_decisions[1].transaction_id = MaxOverrun + 1

\* ------------------------------------------------------------ the snapshot

\* C29: get_stats leaves every part of the Student state unchanged, and two
\* consecutive get_stats calls with nothing in between return equal snapshots.
C29_GetStatsReadOnly ==
    [][ Op("get_stats") =>
            /\ learner' = learner
            /\ ret'.stats = get_stats(learner')
            /\ ret.op = "get_stats" => ret'.stats = ret.stats ]_vars

\* a snapshot of a trained Student that has answered a query
C29_Witness ==
    /\ ret.op = "get_stats"
    /\ ret.stats.samples_seen = MaxPersistLearns
    /\ ret.stats.average_confidence > 0
    /\ ret.stats.recent_decisions # <<>>

\* ------------------------------------------------------------ repeated queries

\* predict / is_confident calls made directly on the learner (RepeatSpec)
MaxRepeats == 3

\* The learner trained, queried several times in a row, saved and loaded.
RepeatNext ==
    \/ /\ learner.samples_seen < MaxPersistLearns
       /\ Len(learner.recent_decisions) < MaxPersistLearns
       /\ \E a \in LearnLabels : LearnCall(a)
    \/ /\ QueriesMade(learner) < MaxRepeats
       /\ \E txn \in TestTransactions : PredictCall(txn)
    \/ /\ QueriesMade(learner) < MaxRepeats
       /\ \E txn \in TestTransactions : IsConfidentCall(txn)
    \/ GetStatsCall
    \/ SaveCall
    \/ LoadCall

RepeatSpec == Init /\ [][RepeatNext]_vars

\* what predict returns to its caller
Answer(L, txn) ==
    [action |-> predict(L, txn).action, confidence |-> predict(L, txn).confidence]

\* the answer of predict depends on the classifier only: a step that is neither
\* a learn nor a load leaves the classifier, and with it the answer predict
\* gives on every event, as it was, and a predict step returns that answer
SameAnswers ==
    /\ (Op("predict") \/ Op("is_confident") \/ Op("get_stats") \/ Op("save")) =>
          /\ learner'.model = learner.model
          /\ \A txn \in TestTransactions : Answer(learner', txn) = Answer(learner, txn)
    /\ Op("predict") =>
          /\ ret'.action = Answer(learner, ret'.txn).action
          /\ ret'.confidence = Answer(learner, ret'.txn).confidence
          /\ (ret.op = "predict" /\ ret.txn = ret'.txn) =>
                /\ ret'.action = ret.action
                /\ ret'.confidence = ret.confidence

\* C30 as stated: two predict calls on the same event with no learn or load in
\* between return the same (action, confidence), and each predict call appends
\* the confidence it returns to the confidence history.
C30_EveryPredictAppends ==
    [][ /\ SameAnswers
        /\ Op("predict") =>
              learner'.confidence_history =
                  DequeAppend(learner.confidence_history, ret'.confidence,
                              CONFIDENCE_HISTORY_MAXLEN) ]_vars

\* C30, amended: two predict calls on the same event with no learn or load in
\* between return the same (action, confidence); a predict call answered from
\* a distribution appends its confidence to the confidence history and changes
\* nothing else, one on an untrained model or whose classifier raises changes
\* nothing at all.
C30_PredictDeterministic ==
    [][ /\ SameAnswers
        /\ Op("predict") =>
              learner' =
                  IF model_error \/ ModelWeight(learner.model) = 0
                  THEN learner
                  ELSE [learner EXCEPT !.confidence_history =
                           DequeAppend(@, ret'.confidence, CONFIDENCE_HISTORY_MAXLEN)] ]_vars

\* the second of two predict calls in a row on one event: the same answer as
\* the first, a longer history and another rolling average
C30_Witness ==
    /\ ret.op = "predict"
    /\ ret.confidence = 50
    /\ learner.confidence_history = <<100, 50, 50>>
    /\ get_average_confidence(learner) = 66

\* ------------------------------------------------------------ teacher before student

\* a Decision of the Student among the messages of the call in flight
StudentDecided(c) ==
    \E i \in 1..Len(Decisions(ctx[c].out)) :
        Decisions(ctx[c].out)[i].decision.agent_source = "student"

\* C31: from a fresh router, when a Decision with source student is emitted a
\* Teacher deliberation has completed and at least 20 learn calls have been
\* made, all of them in escalation cycles of earlier process_transaction calls.
C31_StudentAfterTeacher ==
    StudentDecided(1) =>
        /\ debate_log # <<>>
        /\ metrics.teacher_decisions >= 1
        /\ Len(learn_log) >= 20
        /\ learner.samples_seen = Len(learn_log)
        /\ Loop.pre_learner.samples_seen >= 20
        /\ Loop.pre_learner.samples_seen = learner.samples_seen
        /\ Loop.trained = <<>>
        /\ \A k \in 1..Len(learn_log) : learn_log[k] < Loop.txn.id

\* the first Decision of the Student, at its emission: 20 samples learned in
\* four deliberations
C31_Witness ==
    /\ Loop.pc = "emit_decision_fast"
    /\ StudentDecided(1)
    /\ metrics.student_decisions = 1
    /\ Len(learn_log) = 20
    /\ Len(debate_log) = 4

\* ------------------------------------------------------------ training labels

\* the labels of the last n learn calls, as the Student logged them
LastLabels(L, n) ==
    LET q == L.recent_decisions
    IN  [i \in 1..n |-> q[Len(q) - n + i].council_action]

\* C32: the router calls learn only in an escalation cycle, after the debate
\* has returned and its Decision was emitted, and only with that Decision,
\* whose source is teacher, as the label; a call on the fast path leaves
\* samples_seen as it was.
C32_LearnOnlyFromTeacher ==
    [][ /\ (learner'.samples_seen # learner.samples_seen \/ learn_log' # learn_log) =>
              /\ Loop.pc = "emit_decision_slow"
              /\ Debates(Loop.out) # <<>>
              /\ Loop.decision = Loop.debate.final_decision
              /\ Loop.decision.agent_source = "teacher"
              /\ ~StudentDecided(1)
              /\ learn_log' = learn_log \o Ids(recent_failures)
              /\ learner'.samples_seen = learner.samples_seen + Len(recent_failures)
              /\ LastLabels(learner', Len(recent_failures))
                    = [i \in 1..Len(recent_failures) |-> Loop.decision.action]
        /\ (StudentDecided(1) \/ StudentDecided(1)') =>
              /\ learner'.samples_seen = learner.samples_seen
              /\ learner'.recent_decisions = learner.recent_decisions ]_vars

\* the training loop of the fourth escalation cycle has run
C32_Witness ==
    /\ Loop.pc = "emit_metrics"
    /\ Len(Loop.trained) = FAILURE_THRESHOLD
    /\ Loop.decision.agent_source = "teacher"
    /\ learner.samples_seen = 20
    /\ Len(learn_log) = 20

\* ------------------------------------------------------------ the decision counters

\* the Decisions the step has emitted
NewDecisions ==
    Len(Decisions(ctx'[1].out))
        - (IF EventProcessed THEN 0 ELSE Len(Decisions(ctx[1].out)))

\* no process_transaction call is in flight: the last one returned or raised
BetweenCalls == Loop.pc \in {"idle", "raised"}

\* C33: a process_transaction call emits at most one Decision; the two
\* decision counters together count the Decisions emitted; and between calls
\* teacher_decisions is the number of debate invocations and
\* student_decisions + teacher_decisions <= failed_transactions.
C33_DecisionCounters ==
    [][ /\ Len(Decisions(ctx'[1].out)) <= 1
        /\ (metrics'.student_decisions + metrics'.teacher_decisions)
              = (metrics.student_decisions + metrics.teacher_decisions) + NewDecisions
        /\ BetweenCalls' =>
              /\ metrics'.teacher_decisions = Len(debate_log')
              /\ metrics'.student_decisions + metrics'.teacher_decisions
                    <= metrics'.failed_transactions ]_vars

\* ------------------------------------------------------------ the loop's task

\* iterations a transaction_loop task is followed for
MaxLoopIterations == 2

\* what the life cycle leaves alone
restVars ==
    <<learner, routerVars, ret, councilVars, disk, model_error, session_state, bcast,
      chaosVars>>

RunningTasks == {t \in LoopTaskIds : loop_tasks[t].pc = "running"}

FreeTasks == {t \in LoopTaskIds : loop_tasks[t].pc = "none"}

\* websocket_endpoint up to its first await after accept: the client is added
\* to the set and the current metrics are being sent to it
EndpointAccept(id, kind) ==
    /\ endpoints[id].pc = "none"
    /\ id \notin ConnectedIds
    /\ connected_clients' = connected_clients \cup {Client(id, kind)}
    /\ endpoints' = [endpoints EXCEPT ![id] = Endpoint("send_metrics", Client(id, kind))]
    /\ UNCHANGED <<restVars, is_running, loop_tasks>>

\* the send of the metrics has returned: a transaction_loop task is created
\* when the set holds exactly one client now; then the endpoint waits in
\* receive_text
EndpointGreeted(id) ==
    /\ endpoints[id].pc = "send_metrics"
    /\ IF Cardinality(connected_clients) = 1
       THEN /\ FreeTasks # {}
            /\ LET t == CHOOSE u \in FreeTasks : \A v \in FreeTasks : u <= v
               IN  loop_tasks' = [loop_tasks EXCEPT ![t] = Task("created", 0)]
       ELSE UNCHANGED loop_tasks
    /\ endpoints' = [endpoints EXCEPT ![id].pc = "receive"]
    /\ UNCHANGED <<restVars, is_running, connected_clients>>

\* the send of the metrics raises: the exception leaves websocket_endpoint
\* before its try statement, the client stays in the set
EndpointGreetRaises(id) ==
    /\ endpoints[id].pc = "send_metrics"
    /\ endpoints[id].client.kind = "raises"
    /\ endpoints' = [endpoints EXCEPT ![id] = Endpoint("none", NoClient)]
    /\ UNCHANGED <<restVars, is_running, loop_tasks, connected_clients>>

\* receive_text raises WebSocketDisconnect: the client is discarded, and
\* is_running is cleared when the set is empty now
EndpointDisconnect(id) ==
    /\ endpoints[id].pc = "receive"
    /\ connected_clients' = connected_clients \ {endpoints[id].client}
    /\ is_running' = IF connected_clients' = {} THEN FALSE ELSE is_running
    /\ endpoints' = [endpoints EXCEPT ![id] = Endpoint("none", NoClient)]
    /\ UNCHANGED <<restVars, loop_tasks>>

\* a created task is run for the first time: transaction_loop sets is_running
LoopTaskStart(t) ==
    /\ loop_tasks[t].pc = "created"
    /\ is_running' = TRUE
    /\ loop_tasks' = [loop_tasks EXCEPT ![t].pc = "running"]
    /\ UNCHANGED <<restVars, connected_clients, endpoints>>

\* one iteration of the while loop: is_running is set, a transaction is
\* generated and processed; the broadcasts of the iteration remove the
\* clients whose send raised (dropped) from the set, and nothing else
LoopTaskIterate(t, dropped) ==
    /\ loop_tasks[t].pc = "running"
    /\ is_running
    /\ loop_tasks[t].events < MaxLoopIterations
    /\ connected_clients' = connected_clients \ dropped
    /\ loop_tasks' = [loop_tasks EXCEPT ![t].events = @ + 1]
    /\ UNCHANGED <<restVars, is_running, endpoints>>

\* the while condition is found false: transaction_loop returns
LoopTaskExit(t) ==
    /\ loop_tasks[t].pc = "running"
    /\ ~is_running
    /\ loop_tasks' = [loop_tasks EXCEPT ![t].pc = "ended"]
    /\ UNCHANGED <<restVars, is_running, connected_clients, endpoints>>

\* process_transaction raises (a debate of the LLMCouncil, the set iterator of
\* broadcast): nothing in transaction_loop catches it, the task ends
LoopTaskRaises(t) ==
    /\ loop_tasks[t].pc = "running"
    /\ is_running
    /\ loop_tasks[t].events > 0
    /\ loop_tasks' = [loop_tasks EXCEPT ![t].pc = "ended"]
    /\ UNCHANGED <<restVars, is_running, connected_clients, endpoints>>

\* the clients whose send_text may raise
FailingClients == {cl \in connected_clients : cl.kind = "raises"}

LifecycleNext ==
    \/ \E id \in ClientIds, kind \in {"ok", "raises"} : EndpointAccept(id, kind)
    \/ \E id \in ClientIds : EndpointGreeted(id)
    \/ \E id \in ClientIds : EndpointGreetRaises(id)
    \/ \E id \in ClientIds : EndpointDisconnect(id)
    \/ \E t \in LoopTaskIds : LoopTaskStart(t)
    \/ \E t \in LoopTaskIds, dropped \in SUBSET FailingClients : LoopTaskIterate(t, dropped)
    \/ \E t \in LoopTaskIds : LoopTaskExit(t)
    \/ \E t \in LoopTaskIds : LoopTaskRaises(t)

LifecycleSpec == Init /\ [][LifecycleNext]_vars

\* C34: over any sequence of client connects, disconnects and send failures
\* at most one transaction_loop task is running at any time.
C34_SingleLoopTask == Cardinality(RunningTasks) <= 1

\* ------------------------------------------------------------ a load that fails

\* learn calls made before and after the file is written (FileSpec)
MaxFileLearns == 2

\* the file at filepath is replaced by one whose dict lacks some of the keys
\* (written by another version of save, or by another program); a file that
\* cannot be unpickled at all behaves like a dict without any key, as
\* pickle.load raises before the first assignment
DamageFile(keys) ==
    /\ disk.exists
    /\ keys \subseteq DOMAIN disk.data
    /\ keys # DOMAIN disk.data
    /\ disk' = File(TRUE, [k \in keys |-> disk.data[k]], disk.saved_from)
    /\ UNCHANGED <<learner, ret, routerVars, councilVars, model_error, session_state,
                   lifeVars, chaosVars, transportVars>>

\* The learner trained, saved and loaded, with the file changed in between.
FileNext ==
    \/ /\ learner.samples_seen < MaxFileLearns
       /\ Len(learner.recent_decisions) < MaxFileLearns
       /\ \E a \in LearnLabels : LearnCall(a)
    \/ SaveCall
    \/ \E keys \in SUBSET {SaveKeys[i] : i \in 1..Len(SaveKeys)} : DamageFile(keys)
    \/ LoadCall

FileSpec == Init /\ [][FileNext]_vars

\* C35: when load returns False the classifier, samples_seen,
\* correct_predictions and the confidence history are exactly what they were
\* before the call.
C35_FailedLoadKeepsState ==
    [][ (Op("load") /\ ~ret'.is_confident) =>
            /\ learner'.model = learner.model
            /\ learner'.samples_seen = learner.samples_seen
            /\ learner'.correct_predictions = learner.correct_predictions
            /\ learner'.confidence_history = learner.confidence_history ]_vars

\* ------------------------------------------------------------ simulator and chaos endpoints

\* TransactionSimulator.BANKS, which is also inject_chaos's valid_banks
BANKS == {"HDFC", "ICICI", "SBI", "Axis", "Kotak", "Yes Bank", "PNB", "BOB"}

\* the error codes drawn here, of TransactionSimulator.ERROR_CODES
ERROR_CODES == {"E001_TIMEOUT", "E003_BANK_DECLINED"}

\* the values of random.random() drawn here, in hundredths
Rolls == {0, 4, 5, 79, 80, 99}

\* the banks transactions are generated for here
DrawnBanks == {"HDFC", "SBI", "Axis"}

MinOf(a, b) == IF a <= b THEN a ELSE b
MaxOf(a, b) == IF a >= b THEN a ELSE b

\* TransactionSimulator.inject_chaos: the rate is clamped to [0, 1]
SimInjectChaos(sim, bank_name, failure_rate) ==
    [ sim EXCEPT !.chaos_config =
        [ b \in DOMAIN sim.chaos_config \cup {bank_name} |->
            IF b = bank_name THEN MinOf(MaxOf(failure_rate, 0), 100)
            ELSE sim.chaos_config[b] ] ]

\* TransactionSimulator.remove_chaos() without a bank name: clear
SimRemoveChaos(sim) == [sim EXCEPT !.chaos_config = <<>>]

_get_failure_rate(sim, bank_name) ==
    IF bank_name \in DOMAIN sim.chaos_config THEN sim.chaos_config[bank_name]
    ELSE sim.base_failure_rate

\* a generate_transaction that sets an error code for every bank under chaos
generate_transaction_CodeOnChaos(sim, bank_name, roll, code) ==
    LET failure_rate == _get_failure_rate(sim, bank_name)
        is_failed == roll < failure_rate
    IN  SimTransaction(bank_name,
                       IF is_failed THEN "failed" ELSE "success",
                       IF is_failed \/ bank_name \in DOMAIN sim.chaos_config
                       THEN code ELSE "None")

\* generate_transaction, for the bank, the value of random.random() and the
\* error code that random draws
generate_transaction(sim, bank_name, roll, code) ==
    LET failure_rate == _get_failure_rate(sim, bank_name)
        is_failed == roll < failure_rate
    IN  SimTransaction(bank_name,
                       IF is_failed THEN "failed" ELSE "success",
                       IF is_failed THEN code ELSE "None")

\* the REST routes of the app in the order their decorators register them;
\* a segment in braces is a path parameter
Route(method, path, endpoint) == [method |-> method, path |-> path, endpoint |-> endpoint]

Routes ==
    << Route("POST", <<"chaos", "{bank_name}">>, "inject_chaos"),
       Route("POST", <<"chaos", "reset">>, "reset_chaos"),
       Route("GET", <<"metrics">>, "get_metrics"),
       Route("GET", <<"student", "stats">>, "get_student_stats"),
       Route("GET", <<"health">>, "health_check") >>

IsParam(segment) == segment \in {"{bank_name}"}

\* a request: the body is a ChaosRequest in JSON (its failure_rate in
\* hundredths) or absent
Request(method, path, has_body, failure_rate) ==
    [method |-> method, path |-> path, has_body |-> has_body, failure_rate |-> failure_rate]

PathMatches(route, req) ==
    /\ Len(route.path) = Len(req.path)
    /\ \A i \in 1..Len(route.path) :
          IsParam(route.path[i]) \/ route.path[i] = req.path[i]

\* the router takes the first route, in registration order, whose path and
\* method match the request; 0 when there is none
RouteOf(req) ==
    LET matching == {i \in 1..Len(Routes) :
                        PathMatches(Routes[i], req) /\ Routes[i].method = req.method}
    IN  IF matching = {} THEN 0
        ELSE CHOOSE i \in matching : \A j \in matching : i <= j

Response(endpoint, status_code, sim, met) ==
    [endpoint |-> endpoint, status_code |-> status_code, simulator |-> sim, metrics |-> met]

\* inject_chaos: the body is validated before the function runs (422 when it
\* is missing); an unknown bank raises HTTPException(400)
inject_chaos(sim, met, bank_name, req) ==
    IF ~req.has_body THEN Response("none", 422, sim, met)
    ELSE IF bank_name \notin BANKS THEN Response("inject_chaos", 400, sim, met)
    ELSE Response("inject_chaos", 200,
                  SimInjectChaos(sim, bank_name, req.failure_rate),
                  [met EXCEPT !.chaos_active = TRUE, !.chaos_bank = bank_name])

reset_chaos(sim, met) ==
    Response("reset_chaos", 200, SimRemoveChaos(sim),
             [met EXCEPT !.chaos_active = FALSE, !.chaos_bank = "None"])

\* the app answers a request
Serve(sim, met, req) ==
    LET i == RouteOf(req)
    IN  IF i = 0
        THEN Response("none",
                      IF \E k \in 1..Len(Routes) : PathMatches(Routes[k], req)
                      THEN 405 ELSE 404,
                      sim, met)
        ELSE IF Routes[i].endpoint = "inject_chaos"
        THEN inject_chaos(sim, met, req.path[2], req)
        ELSE IF Routes[i].endpoint = "reset_chaos"
        THEN reset_chaos(sim, met)
        ELSE Response(Routes[i].endpoint, 200, sim, met)

\* the requests sent here
ChaosSegments == {"HDFC", "SBI", "reset", "Paytm"}
ChaosRates == {-10, 0, 80, 150}

Requests ==
    { Request("POST", <<"chaos", seg>>, TRUE, r) : seg \in ChaosSegments, r \in ChaosRates }
        \cup { Request("POST", <<"chaos", seg>>, FALSE, 0) : seg \in ChaosSegments }
        \cup { Request("GET", <<"metrics">>, FALSE, 0),
               Request("GET", <<"chaos", "reset">>, FALSE, 0),
               Request("GET", <<"ws">>, FALSE, 0) }

HttpCall(req) ==
    /\ LET r == Serve(simulator, metrics, req)
       IN  /\ simulator' = r.simulator
           /\ metrics' = r.metrics
           /\ sim_ret' = SimRet(IF req.method = "POST" THEN "post" ELSE "get",
                                r.endpoint, r.status_code,
                                IF Len(req.path) = 2 THEN req.path[2] ELSE "none",
                                NoSimTransaction)
    /\ UNCHANGED <<learner, recent_failures, ctx, nextId, nPending, learn_log, debate_log,
                   ret, councilVars, disk, model_error, transportVars, session_state,
                   lifeVars>>

GenerateCall(bank_name, roll, code) ==
    /\ sim_ret' = SimRet("generate", "none", 0, "none",
                         generate_transaction(simulator, bank_name, roll, code))
    /\ UNCHANGED <<learner, routerVars, ret, councilVars, disk, model_error, transportVars,
                   session_state, lifeVars, simulator>>

ChaosNext ==
    \/ \E req \in Requests : HttpCall(req)
    \/ \E bank_name \in DrawnBanks, roll \in Rolls, code \in ERROR_CODES :
          GenerateCall(bank_name, roll, code)

ChaosSpec == Init /\ [][ChaosNext]_vars

\* C36: a POST to /chaos/reset reaches reset_chaos, and afterwards chaos_config
\* is empty, chaos_active is False and chaos_bank is None, whatever chaos had
\* been injected before.
C36_ResetClearsChaos ==
    (sim_ret.op = "post" /\ sim_ret.segment = "reset") =>
        /\ sim_ret.endpoint = "reset_chaos"
        /\ DOMAIN simulator.chaos_config = {}
        /\ metrics.chaos_active = FALSE
        /\ metrics.chaos_bank = "None"

\* C37: every Transaction generate_transaction produces, under any chaos
\* configuration, has status success or failed, never pending, and carries an
\* error code if and only if its status is failed.
C37_GeneratedStatus ==
    /\ \A bank_name \in DrawnBanks, roll \in Rolls, code \in ERROR_CODES :
          LET txn == generate_transaction(simulator, bank_name, roll, code)
          IN  /\ txn.status \in SimulatorStatuses
              /\ txn.status # "pending"
              /\ (txn.error_code # "None") <=> (txn.status = "failed")
    /\ sim_ret.op = "generate" =>
          /\ sim_ret.txn.status \in {"success", "failed"}
          /\ (sim_ret.txn.error_code # "None") <=> (sim_ret.txn.status = "failed")

\* a success generated for a bank under chaos at rate 0.8, by a draw of 0.80
C37_Witness ==
    /\ sim_ret.op = "generate"
    /\ sim_ret.txn.bank_name \in DOMAIN simulator.chaos_config
    /\ simulator.chaos_config[sim_ret.txn.bank_name] = 80
    /\ sim_ret.txn.status = "success"
    /\ sim_ret.txn.error_code = "None"
    /\ metrics.chaos_active
====
